---------------------------- MODULE Spec2Model ----------------------------
(***************************************************************************)
(* Verification model of the plpc Pascal compiler (Projeto_Compilador).   *)
(*                                                                         *)
(*   SpecPeephole : plpc/ewvmpeephole.py, the EWVM peephole optimizer      *)
(*   SpecSymtab   : plpc/symboltable.py, the scoped symbol table           *)
(*   SpecTypes    : plpc/typechecker.py, operator result types             *)
(*   SpecIndexation : plpc/typechecker.py, types of indexed variables      *)
(*   SpecOptimizer : plpc/optimizer.py, constant folding and simplifying   *)
(*                                                                         *)
(* Python lists are indexed from 0 and TLA+ sequences from 1; the model    *)
(* keeps the code's 0-based indices and reads lists through At.            *)
(***************************************************************************)
EXTENDS Integers, Sequences, FiniteSets, TLC

VARIABLES
    \* ---- ewvmpeephole.py ----
    input,      \* argument of apply_ewvm_peephole_optimizations
    program,    \* previous_program: the argument of the running pass
    ret,        \* ret of __optimization_pass
    i,          \* i of __optimization_pass (0-based)
    pc,         \* "idle" | "pass" | "done"
    passes,     \* number of completed calls of __optimization_pass
    \* ---- symboltable.py ----
    scopes,     \* SymbolTable.scopes: a stack of dictionaries, top last
    outcome,    \* what the last SymbolTable call returned or raised
    \* ---- typechecker.py ----
    operation,  \* the BinaryOperation handed to the type checker
    tc_result,  \* what get_binary_operation_type returned or raised
    \* ---- typechecker.py, indexation (parser.py p_variable_usage) ----
    variable_type,\* variable_type of the variable that is being indexed
    current_type, \* current_type of p_variable_usage
    indices,      \* the index types handed to type_after_indexation so far
    ix_error,     \* type_after_indexation raised TypeCheckerError
    \* ---- optimizer.py ----
    expression,   \* the Expression handed to the replacer of optimize_ast
    tree,         \* the Expression as rewritten so far
    stage,        \* "idle" | "fold" | "simplify" | "done" | "raised"
    runs,         \* completed applications of fold-then-simplify
    optimized,    \* what the first application returned
    \* ---- parser diagnostics (parser.py, _Parser.print_error) ----
    has_errors,   \* self.has_errors
    diagnostics,  \* every diagnostic printed so far, in order
    \* ---- declaration sections of one block (parser.py, p_block) ----
    any_block_list,\* p[1]: the sections before BEGIN, in source order
    block,        \* p[0]: the Block built by p_block
    block_pc,     \* position of the block production
    \* ---- parser.py: the callable productions during one parse() ----
    parse_pc,     \* where the parser is: block, heading, body, callables, recovering, done
    open_callables,\* headings reduced whose callable-definition is not reduced yet
    recovering_from,\* parse_pc at the syntax error that is being recovered from
    started,      \* callable headings begun so far
    calls,        \* (caller, callee) of every CallableCall built
    attempts,     \* (caller, callee) of every call tried inside the body of callee
    parse_result, \* what parse() returned or raised
    \* ---- parser.py: the production range-type ----
    range_bounds, \* the constants reduced so far: p[1], then p[3]
    range_type,   \* p[0] of p_range_type
    range_pc,     \* constants, reduced, raised
    \* ---- lexer.py: _Lexer and the ply lexer it drives ----
    lexdata,      \* lexer.lexdata: the source, one character per element
    lexpos,       \* lexer.lexpos (0-based)
    lineno,       \* lexer.lineno
    last_error,   \* self.last_error: <<>> for None, else <<start, length>>
    lexer_has_errors,\* self.has_errors of _Lexer
    reported,     \* the diagnostics commit_error has printed, in order
    tokens,       \* the tokens returned so far
    unrecognized, \* the positions t_error has been called at
    lex_pc,       \* lexing, eof, raised
    \* ---- parser.py, ewvm.py, __main__.py: one statement from its production to the exported assembly ----
    reduced,      \* what the productions inside the statement have reduced
    p0,           \* p[0] of the production of the statement
    flag_O,       \* args.O
    flag_g,       \* args.g
    exported,     \* the assembly main exports
    compile_pc    \* statement, reduced, parsed, ParserError, exported, raised

vars ==
    <<input, program, ret, i, pc, passes, scopes, outcome, operation,
      tc_result, variable_type, current_type, indices, ix_error, expression,
      tree, stage, runs, optimized, has_errors, diagnostics, any_block_list,
      block, block_pc, parse_pc, open_callables, recovering_from, started,
      calls, attempts, parse_result, range_bounds, range_type, range_pc,
      lexdata, lexpos, lineno, last_error, lexer_has_errors, reported,
      tokens, unrecognized, lex_pc, reduced, p0, flag_O, flag_g, exported,
      compile_pc>>

peephole_vars == <<input, program, ret, i, pc, passes>>
symtab_vars   == <<scopes, outcome>>
types_vars    == <<operation, tc_result>>
indexation_vars == <<variable_type, current_type, indices, ix_error>>
optimizer_vars == <<expression, tree, stage, runs, optimized>>
errors_vars == <<has_errors, diagnostics>>
block_vars == <<any_block_list, block, block_pc>>
parse_vars == <<parse_pc, open_callables, recovering_from, started, calls, attempts, parse_result>>
range_vars == <<range_bounds, range_type, range_pc>>
lexer_vars == <<lexdata, lexpos, lineno, last_error, lexer_has_errors, reported, tokens, unrecognized, lex_pc>>
compile_vars == <<reduced, p0, flag_O, flag_g, exported, compile_pc>>

(***************************************************************************)
(* Bounds                                                                  *)
(***************************************************************************)
MaxLen == 4         \* longest instruction list given to the optimizer
MaxScopes == 2      \* deepest scope stack (global scope + callable scope)
MaxDims == 2        \* most dimensions of an array type
MaxNodes == 5       \* most nodes of an expression given to the optimizer
MaxRuns == 2        \* times the optimizer is run over one expression
MaxSections == 3    \* most declaration sections before one BEGIN
MaxCallables == 2   \* most callable headings in one parsed program
MaxNesting == 1     \* deepest nesting of callable definitions
MaxOrdinal == 2     \* largest integer literal written as a bound of a range
MaxSource == 5      \* most characters of a source given to the lexer
MaxHeight == 6      \* highest and lowest operand stack followed through generated code
MaxDiagnostics == 2 \* diagnostics after which the rest of the input is not followed

(***************************************************************************)
(* ewvm.py: the items of an EWVMProgram                                    *)
(***************************************************************************)
\* EWVMStatement(instruction, *args). Numeric arguments are compared by
\* Python's ==, under which 0 == 0.0 and 2 == 2.0, so the float arguments
\* of PUSHF are modelled by the integer of the same value.
EWVMStatement(instruction, arguments) ==
    [kind |-> "EWVMStatement", instruction |-> instruction, arguments |-> arguments]

\* Label(name); the name is kept in the instruction field
Label(name) == [kind |-> "Label", instruction |-> name, arguments |-> <<>>]

\* Comment(content); the content is kept in the instruction field
Comment(content) == [kind |-> "Comment", instruction |-> content, arguments |-> <<>>]

isinstance_EWVMStatement(e) == e.kind = "EWVMStatement"

\* EWVMStatement.__eq__: False unless other is an EWVMStatement, then
\* instruction and arguments are compared. Label and Comment define no
\* __eq__, and the pass hands the same objects through, so value equality
\* of the records is what every == and != of the optimizer computes.
EWVMStatement_eq(self, other) ==
    /\ isinstance_EWVMStatement(other)
    /\ self.instruction = other.instruction
    /\ self.arguments = other.arguments

At(list, index) == list[index + 1]

(***************************************************************************)
(* ewvmpeephole.py: __optimization_pass, one iteration of its while loop   *)
(***************************************************************************)
PUSHI0 == EWVMStatement("PUSHI", <<0>>)
PUSHF0 == EWVMStatement("PUSHF", <<0>>)
PUSHI2 == EWVMStatement("PUSHI", <<2>>)
PUSHF2 == EWVMStatement("PUSHF", <<2>>)
MUL == EWVMStatement("MUL", <<>>)
FMUL == EWVMStatement("FMUL", <<>>)
ADD == EWVMStatement("ADD", <<>>)
FADD == EWVMStatement("FADD", <<>>)
DUP1 == EWVMStatement("DUP", <<1>>)
PUSHN(count) == EWVMStatement("PUSHN", <<count>>)

\* Mutant of PairOfStatements: the class of program[i + 1] is not tested
PairOfStatements_FirstOnly(prog, idx) ==
    /\ isinstance_EWVMStatement(At(prog, idx))
    /\ idx + 1 < Len(prog)

\* lines 28-30: both program[i] and program[i + 1] are EWVMStatements
PairOfStatements(prog, idx) ==
    /\ isinstance_EWVMStatement(At(prog, idx))
    /\ idx + 1 < Len(prog)
    /\ isinstance_EWVMStatement(At(prog, idx + 1))

\* lines 38-39, 42-43: the statement is PUSHI 0 or PUSHF 0.0
IsZeroPush(e) == EWVMStatement_eq(PUSHI0, e) \/ EWVMStatement_eq(PUSHF0, e)

\* lines 40-45: the inner while loop that measures the run
RECURSIVE ZeroRunCount(_, _, _)
ZeroRunCount(prog, idx, count) ==
    IF idx + count < Len(prog) /\ IsZeroPush(At(prog, idx + count))
    THEN ZeroRunCount(prog, idx, count + 1)
    ELSE count

\* Mutant of ZeroRunReplacement: the threshold of the collapse is off by one
ZeroRunReplacement_OffByOne(count) == IF count <= 2 THEN PUSHI0 ELSE PUSHN(count)

\* lines 47-50: what is appended for a run of `count` zero pushes
ZeroRunReplacement(count) == IF count = 1 THEN PUSHI0 ELSE PUSHN(count)

\* line 38: the zero-push branch is taken
ZeroRunCondition(prog, idx) ==
    PairOfStatements(prog, idx) /\ IsZeroPush(At(prog, idx))

\* Mutant of StorePushCondition: the arguments are not compared
StorePushCondition_AnyOffset(prog, idx) ==
    /\ PairOfStatements(prog, idx)
    /\ At(prog, idx).instruction \in {"STOREL", "STOREG"}
    /\ \/ At(prog, idx).instruction = "STOREL" /\ At(prog, idx + 1).instruction = "PUSHL"
       \/ At(prog, idx).instruction = "STOREG" /\ At(prog, idx + 1).instruction = "PUSHG"

\* lines 56-59: STOREL N ; PUSHL N and STOREG N ; PUSHG N
StorePushCondition(prog, idx) ==
    /\ PairOfStatements(prog, idx)
    /\ At(prog, idx).instruction \in {"STOREL", "STOREG"}
    /\ \/ At(prog, idx).instruction = "STOREL" /\ At(prog, idx + 1).instruction = "PUSHL"
       \/ At(prog, idx).instruction = "STOREG" /\ At(prog, idx + 1).instruction = "PUSHG"
    /\ At(prog, idx).arguments = At(prog, idx + 1).arguments

\* lines 66-69: PUSH(I|F) 2 ; F?MUL. It is the elif of the STORE test, so
\* it is tried only when the current statement is not a STOREL/STOREG.
Mul2Condition(prog, idx) ==
    /\ PairOfStatements(prog, idx)
    /\ At(prog, idx).instruction \notin {"STOREL", "STOREG"}
    /\ EWVMStatement_eq(PUSHI2, At(prog, idx)) \/ EWVMStatement_eq(PUSHF2, At(prog, idx))
    /\ EWVMStatement_eq(MUL, At(prog, idx + 1)) \/ EWVMStatement_eq(FMUL, At(prog, idx + 1))

\* lines 26-81: one iteration of the outer while loop at index idx: the
\* items appended to ret and the next value of i. The zero-push test and the
\* STORE/MUL tests are two consecutive if statements, and whatever leaves i
\* where it was falls through to the copy of lines 79-81.
LoopBody(prog, idx) ==
    LET zero ==
            IF ZeroRunCondition(prog, idx)
            THEN LET count == ZeroRunCount(prog, idx, 0)
                 IN [out |-> <<ZeroRunReplacement(count)>>, i |-> idx + count]
            ELSE [out |-> <<>>, i |-> idx]
        pair ==
            IF StorePushCondition(prog, idx) /\ zero.i + 1 < Len(prog)
            THEN [out |-> zero.out \o <<DUP1, At(prog, zero.i)>>, i |-> zero.i + 2]
            ELSE IF Mul2Condition(prog, idx)
            THEN [out |-> zero.out \o
                          <<DUP1, IF EWVMStatement_eq(At(prog, idx + 1), MUL) THEN ADD ELSE FADD>>,
                  i |-> zero.i + 2]
            ELSE zero
    IN IF pair.i = idx
       THEN [out |-> pair.out \o <<At(prog, idx)>>, i |-> idx + 1]
       ELSE pair

\* lines 21-83: the whole pass
RECURSIVE PassFrom(_, _, _)
PassFrom(prog, idx, acc) ==
    IF idx < Len(prog)
    THEN LET b == LoopBody(prog, idx) IN PassFrom(prog, b.i, acc \o b.out)
    ELSE acc

optimization_pass(prog) == PassFrom(prog, 0, <<>>)

\* Mutant of ProgramsEqual: only the lengths of the two lists are compared
ProgramsEqual_LengthOnly(previous_program, next_program) ==
    Len(previous_program) = Len(next_program)

\* line 90: previous_program == next_program
ProgramsEqual(previous_program, next_program) == previous_program = next_program

\* lines 85-93: the fixed-point loop
RECURSIVE apply_ewvm_peephole_optimizations(_)
apply_ewvm_peephole_optimizations(prog) ==
    LET next_program == optimization_pass(prog)
    IN IF ProgramsEqual(prog, next_program)
       THEN prog
       ELSE apply_ewvm_peephole_optimizations(next_program)

(***************************************************************************)
(* The optimizer as a state machine: one action per branch of the loop     *)
(* body of __optimization_pass and per outcome of the comparison in        *)
(* apply_ewvm_peephole_optimizations.                                      *)
(***************************************************************************)
\* The instructions, labels and comments the input lists are drawn from
Alphabet ==
    { PUSHI0, PUSHF0, PUSHI2, MUL, FMUL,
      EWVMStatement("STOREL", <<0>>), EWVMStatement("STOREG", <<0>>),
      EWVMStatement("PUSHL", <<0>>), EWVMStatement("PUSHL", <<1>>),
      EWVMStatement("PUSHG", <<0>>),
      Label("SYS1"), Comment("c") }

Programs == UNION { [1..n -> Alphabet] : n \in 0..MaxLen }

\* one statement of each kind __optimization_pass tells apart, and a label
TerminationAlphabet ==
    { PUSHI0, PUSHF0, PUSHI2, MUL,
      EWVMStatement("STOREL", <<0>>), EWVMStatement("PUSHL", <<0>>), Label("SYS1") }

TerminatingPrograms == UNION { [1..n -> TerminationAlphabet] : n \in 0..MaxLen }

InLoop == pc = "pass" /\ i < Len(program)

\* Mutant of TakeLoopBody: the item at i is copied after what the branch wrote
TakeLoopBody_CopyToo ==
    /\ ret' = ret \o LoopBody(program, i).out \o <<At(program, i)>>
    /\ i' = LoopBody(program, i).i
    /\ UNCHANGED <<input, program, pc, passes>>
    /\ UNCHANGED <<symtab_vars, types_vars, indexation_vars, optimizer_vars, errors_vars, block_vars, parse_vars, range_vars, lexer_vars, compile_vars>>

\* lines 26-81: one iteration of the while loop of the pass
TakeLoopBody ==
    /\ ret' = ret \o LoopBody(program, i).out
    /\ i' = LoopBody(program, i).i
    /\ UNCHANGED <<input, program, pc, passes>>
    /\ UNCHANGED <<symtab_vars, types_vars, indexation_vars, optimizer_vars, errors_vars, block_vars, parse_vars, range_vars, lexer_vars, compile_vars>>

\* lines 37-52
ZeroRun == InLoop /\ ZeroRunCondition(program, i) /\ TakeLoopBody

\* lines 54-63
StorePush == InLoop /\ StorePushCondition(program, i) /\ TakeLoopBody

\* lines 65-77
Mul2 == InLoop /\ Mul2Condition(program, i) /\ TakeLoopBody

\* lines 79-81: no pattern advanced i
CopyItem ==
    /\ InLoop
    /\ ~ZeroRunCondition(program, i)
    /\ ~StorePushCondition(program, i)
    /\ ~Mul2Condition(program, i)
    /\ TakeLoopBody

\* lines 83, 88-91: the pass returns a different list, the loop goes on
PassChanged ==
    /\ pc = "pass" /\ ~(i < Len(program))
    /\ ~ProgramsEqual(program, ret)
    /\ program' = ret
    /\ ret' = <<>>
    /\ i' = 0
    /\ passes' = passes + 1
    /\ UNCHANGED <<input, pc>>
    /\ UNCHANGED <<symtab_vars, types_vars, indexation_vars, optimizer_vars, errors_vars, block_vars, parse_vars, range_vars, lexer_vars, compile_vars>>

\* lines 83, 90-93: the pass returns an equal list, previous_program is
\* returned
PassFixed ==
    /\ pc = "pass" /\ ~(i < Len(program))
    /\ ProgramsEqual(program, ret)
    /\ pc' = "done"
    /\ passes' = passes + 1
    /\ UNCHANGED <<input, program, ret, i>>
    /\ UNCHANGED <<symtab_vars, types_vars, indexation_vars, optimizer_vars, errors_vars, block_vars, parse_vars, range_vars, lexer_vars, compile_vars>>

NextPeephole == ZeroRun \/ StorePush \/ Mul2 \/ CopyItem \/ PassChanged \/ PassFixed

(***************************************************************************)
(* symboltable.py                                                          *)
(*                                                                         *)
(* A str is a tuple of one-character strings, so that str.lower() is       *)
(* computed character by character. A definition (SymbolValue) is a record *)
(* of its class, its name and its payload; a LabelDefinition's name is an  *)
(* int. A scope (dict) is a function from keys to definitions.             *)
(***************************************************************************)
UpperCaseLetters == <<"A","B","C","D","E","F","G","H","I","J","K","L","M",
                      "N","O","P","Q","R","S","T","U","V","W","X","Y","Z">>
LowerCaseLetters == <<"a","b","c","d","e","f","g","h","i","j","k","l","m",
                      "n","o","p","q","r","s","t","u","v","w","x","y","z">>

\* the lower-case letter of every upper-case letter
UpperToLower ==
    [c \in {UpperCaseLetters[k] : k \in 1..26} |->
        LowerCaseLetters[CHOOSE k \in 1..26 : UpperCaseLetters[k] = c]]

\* str.lower() on one character
LowerChar(c) == IF c \in DOMAIN UpperToLower THEN UpperToLower[c] ELSE c

\* str.lower()
Lower(str) == [k \in DOMAIN str |-> LowerChar(str[k])]

DecimalDigits == <<"0","1","2","3","4","5","6","7","8","9">>

\* str(int) for a non-negative int
RECURSIVE StrOfInt(_)
StrOfInt(n) ==
    IF n < 10 THEN <<DecimalDigits[n + 1]>>
    ELSE StrOfInt(n \div 10) \o <<DecimalDigits[(n % 10) + 1]>>

Definition(kind, name, value) == [kind |-> kind, name |-> name, value |-> value]

\* Python's None, as a query result
None == Definition("None", <<>>, "None")

S_boolean == <<"b", "o", "o", "l", "e", "a", "n">>
S_char == <<"c", "h", "a", "r">>
S_false == <<"f", "a", "l", "s", "e">>
S_integer == <<"i", "n", "t", "e", "g", "e", "r">>
S_length == <<"l", "e", "n", "g", "t", "h">>
S_maxint == <<"m", "a", "x", "i", "n", "t">>
S_read == <<"r", "e", "a", "d">>
S_readln == <<"r", "e", "a", "d", "l", "n">>
S_real == <<"r", "e", "a", "l">>
S_string == <<"s", "t", "r", "i", "n", "g">>
S_true == <<"t", "r", "u", "e">>
S_write == <<"w", "r", "i", "t", "e">>
S_writeln == <<"w", "r", "i", "t", "e", "l", "n">>

\* SymbolTable.__init__ (lines 34-67): the scope of the required identifiers.
\* 1 << 16 - 1 is 1 << 15 = 32768.
BuiltInScope ==
    (S_integer :> Definition("TypeDefinition", S_integer, "INTEGER")) @@
    (S_real :> Definition("TypeDefinition", S_real, "REAL")) @@
    (S_boolean :> Definition("TypeDefinition", S_boolean, "BOOLEAN")) @@
    (S_char :> Definition("TypeDefinition", S_char, "CHAR")) @@
    (S_true :> Definition("ConstantDefinition", S_true, "True")) @@
    (S_false :> Definition("ConstantDefinition", S_false, "False")) @@
    (S_maxint :> Definition("ConstantDefinition", S_maxint, "32768")) @@
    (S_write :> Definition("CallableDefinition", S_write, "builtin")) @@
    (S_writeln :> Definition("CallableDefinition", S_writeln, "builtin")) @@
    (S_read :> Definition("CallableDefinition", S_read, "builtin")) @@
    (S_readln :> Definition("CallableDefinition", S_readln, "builtin")) @@
    (S_string :> Definition("TypeDefinition", S_char, "STRING")) @@
    (S_length :> Definition("CallableDefinition", S_length, "builtin"))

InitialScopes == <<BuiltInScope>>

\* dict.get(key): None when the key is absent
DictGet(scope, key) == IF key \in DOMAIN scope THEN scope[key] ELSE None

\* dict[key] = value
DictSet(scope, key, value) ==
    [k \in (DOMAIN scope) \cup {key} |-> IF k = key THEN value ELSE scope[k]]

\* Mutant of QueryLoop: the scopes are searched from the bottom of the stack
RECURSIVE QueryLoop_BottomUp(_, _, _)
QueryLoop_BottomUp(scs, identifier_lower, n) ==
    IF n >= Len(scs)
    THEN [result |-> None, top |-> FALSE, found |-> FALSE]
    ELSE LET scope_result == DictGet(scs[n + 1], identifier_lower)
         IN IF scope_result # None
            THEN [result |-> scope_result, top |-> (n = 0), found |-> TRUE]
            ELSE QueryLoop_BottomUp(scs, identifier_lower, n + 1)

\* lines 82-85: the loop over enumerate(reversed(self.scopes)), from its
\* i-th iteration on; the result and whether the loop returned
RECURSIVE QueryLoop(_, _, _)
QueryLoop(scs, identifier_lower, n) ==
    IF n >= Len(scs)
    THEN [result |-> None, top |-> FALSE, found |-> FALSE]
    ELSE LET scope_result == DictGet(scs[Len(scs) - n], identifier_lower)
         IN IF scope_result # None
            THEN [result |-> scope_result, top |-> (n = 0), found |-> TRUE]
            ELSE QueryLoop(scs, identifier_lower, n + 1)

\* SymbolTable.query (lines 74-96)
query(scs, identifier, error) ==
    LET identifier_lower == Lower(identifier)
        r == QueryLoop(scs, identifier_lower, 0)
    IN IF r.found
       THEN [result |-> r.result, top |-> r.top, raised |-> "", diag |-> ""]
       ELSE IF error
       THEN [result |-> None, top |-> FALSE, raised |-> "SymbolTableError", diag |-> "error"]
       ELSE [result |-> None, top |-> FALSE, raised |-> "", diag |-> ""]

Raise(error_class) ==
    [result |-> None, top |-> FALSE, raised |-> error_class, diag |-> "error"]

\* the isinstance test shared by the kind-filtered queries
\* (lines 105, 132, 150, 168, 186)
KindFiltered(q, kind) ==
    IF q.raised # "" THEN q
    ELSE IF q.result.kind # kind THEN Raise("SymbolTableError")
    ELSE q

\* Mutant of query_label: the top-most scope is not required
query_label_AnyScope(scs, identifier, error) ==
    KindFiltered(query(scs, StrOfInt(identifier), error), "LabelDefinition")

\* SymbolTable.query_label (lines 98-123)
query_label(scs, identifier, error) ==
    LET q == KindFiltered(query(scs, StrOfInt(identifier), error), "LabelDefinition")
    IN IF q.raised # "" THEN q
       ELSE IF ~q.top THEN Raise("SymbolTableError")
       ELSE q

\* SymbolTable.query_constant (lines 125-141)
query_constant(scs, identifier, error) ==
    KindFiltered(query(scs, identifier, error), "ConstantDefinition")

\* SymbolTable.query_type (lines 143-159)
query_type(scs, identifier, error) ==
    KindFiltered(query(scs, identifier, error), "TypeDefinition")

\* SymbolTable.query_variable (lines 161-177)
query_variable(scs, identifier, error) ==
    KindFiltered(query(scs, identifier, error), "VariableDefinition")

\* Mutant of query_callable: the class of what was found is not looked at
query_callable_AnyKind(scs, identifier, error) == query(scs, identifier, error)

\* SymbolTable.query_callable (lines 179-195)
query_callable(scs, identifier, error) ==
    KindFiltered(query(scs, identifier, error), "CallableDefinition")

\* line 198: the name a definition is filed under, before lowercasing
NameOf(value) ==
    IF value.kind = "LabelDefinition" THEN StrOfInt(value.name) ELSE value.name

\* Mutant of SetInTopScope: the definition is filed in self.scopes[0]
SetInTopScope_Bottom(scs, name, value) ==
    [scs EXCEPT ![1] = DictSet(scs[1], Lower(name), value)]

\* lines 219, 221: self.scopes[-1][name.lower()] = value
SetInTopScope(scs, name, value) ==
    [scs EXCEPT ![Len(scs)] = DictSet(scs[Len(scs)], Lower(name), value)]

\* Mutant of add: the definition is stored before the redefinition is reported
add_StoreThenRaise(scs, value) ==
    LET name == NameOf(value)
        q == query(scs, name, FALSE)
    IN IF q.result # None
       THEN IF q.top
            THEN [scopes |-> SetInTopScope(scs, name, value),
                  raised |-> "SymbolTableError", diag |-> "error"]
            ELSE [scopes |-> SetInTopScope(scs, name, value), raised |-> "", diag |-> "warning"]
       ELSE IF Len(scs) = 0
       THEN [scopes |-> scs, raised |-> "IndexError", diag |-> ""]
       ELSE [scopes |-> SetInTopScope(scs, name, value), raised |-> "", diag |-> ""]

\* SymbolTable.add (lines 197-221): the scopes after the call, what it
\* raised and the severity of what it printed
add(scs, value) ==
    LET name == NameOf(value)
        q == query(scs, name, FALSE)
    IN IF q.result # None
       THEN IF q.top
            THEN [scopes |-> scs, raised |-> "SymbolTableError", diag |-> "error"]
            ELSE [scopes |-> SetInTopScope(scs, name, value), raised |-> "", diag |-> "warning"]
       ELSE IF Len(scs) = 0
       THEN [scopes |-> scs, raised |-> "IndexError", diag |-> ""]
       ELSE [scopes |-> SetInTopScope(scs, name, value), raised |-> "", diag |-> ""]

\* SymbolTable.new_scope (lines 68-69)
new_scope(scs) == Append(scs, <<>>)

\* SymbolTable.unstack_top_scope (lines 71-72): list.pop()
unstack_top_scope(scs) == SubSeq(scs, 1, Len(scs) - 1)

(***************************************************************************)
(* The symbol table as a state machine: one action per public method.      *)
(***************************************************************************)
\* names the callers use: two spellings of one identifier
Identifiers == {<<"x">>, <<"X">>}

\* a spelling of a required identifier
S_Integer == <<"I", "n", "t", "e", "g", "e", "r">>

QueryIdentifiers == Identifiers \cup {S_Integer}

LabelNames == {1}

\* the definitions the callers add: one of each class under the two
\* spellings, and a constant filed under a label's digits
NamedDefinitions ==
    { Definition("VariableDefinition", <<"x">>, "user"),
      Definition("TypeDefinition", <<"X">>, "user"),
      Definition("CallableDefinition", <<"x">>, "user"),
      Definition("ConstantDefinition", <<"X">>, "user"),
      Definition("ConstantDefinition", <<"1">>, "user") }

LabelDefinitions == {Definition("LabelDefinition", n, "None") : n \in LabelNames}

Outcome(op, arg_def, arg_name, r) ==
    [op |-> op, arg_def |-> arg_def, arg_name |-> arg_name,
     raised |-> r.raised, result |-> r.result, top |-> r.top, diag |-> r.diag]

NoResult == [result |-> None, top |-> FALSE, raised |-> "", diag |-> ""]

\* no call is in progress: the caller has taken the last result
Idle == Outcome("idle", None, <<>>, NoResult)

\* the other components stay as they are during a call of the symbol table
OthersUnchangedBySymtab == UNCHANGED <<peephole_vars, types_vars, indexation_vars, optimizer_vars, errors_vars, block_vars, parse_vars, range_vars, lexer_vars, compile_vars>>

NewScope ==
    /\ outcome = Idle
    /\ Len(scopes) < MaxScopes
    /\ scopes' = new_scope(scopes)
    /\ outcome' = Outcome("new_scope", None, <<>>, NoResult)
    /\ OthersUnchangedBySymtab

\* list.pop() of an empty list raises IndexError
UnstackTopScope ==
    /\ outcome = Idle
    /\ IF Len(scopes) > 0
       THEN /\ scopes' = unstack_top_scope(scopes)
            /\ outcome' = Outcome("unstack_top_scope", None, <<>>, NoResult)
       ELSE /\ scopes' = scopes
            /\ outcome' = Outcome("unstack_top_scope", None, <<>>,
                                  [NoResult EXCEPT !.raised = "IndexError"])
    /\ OthersUnchangedBySymtab

AddOf(value) ==
    LET r == add(scopes, value)
    IN /\ scopes' = r.scopes
       /\ outcome' = Outcome("add", value, NameOf(value),
                             [result |-> None, top |-> FALSE,
                              raised |-> r.raised, diag |-> r.diag])

Add ==
    /\ outcome = Idle
    /\ \/ \E value \in NamedDefinitions : AddOf(value)
       \/ \E value \in LabelDefinitions : AddOf(value)
    /\ OthersUnchangedBySymtab

Query ==
    \E identifier \in QueryIdentifiers \cup {StrOfInt(n) : n \in LabelNames}, error \in BOOLEAN :
        /\ outcome = Idle
        /\ outcome' = Outcome("query", None, identifier, query(scopes, identifier, error))
        /\ UNCHANGED scopes
        /\ OthersUnchangedBySymtab

QueryLabel ==
    \E identifier \in LabelNames, error \in BOOLEAN :
        /\ outcome = Idle
        /\ outcome' = Outcome("query_label", None, StrOfInt(identifier),
                              query_label(scopes, identifier, error))
        /\ UNCHANGED scopes
        /\ OthersUnchangedBySymtab

QueryConstant ==
    \E identifier \in QueryIdentifiers, error \in BOOLEAN :
        /\ outcome = Idle
        /\ outcome' = Outcome("query_constant", None, identifier,
                              query_constant(scopes, identifier, error))
        /\ UNCHANGED scopes
        /\ OthersUnchangedBySymtab

QueryType ==
    \E identifier \in QueryIdentifiers, error \in BOOLEAN :
        /\ outcome = Idle
        /\ outcome' = Outcome("query_type", None, identifier,
                              query_type(scopes, identifier, error))
        /\ UNCHANGED scopes
        /\ OthersUnchangedBySymtab

QueryVariable ==
    \E identifier \in QueryIdentifiers, error \in BOOLEAN :
        /\ outcome = Idle
        /\ outcome' = Outcome("query_variable", None, identifier,
                              query_variable(scopes, identifier, error))
        /\ UNCHANGED scopes
        /\ OthersUnchangedBySymtab

QueryCallable ==
    \E identifier \in QueryIdentifiers, error \in BOOLEAN :
        /\ outcome = Idle
        /\ outcome' = Outcome("query_callable", None, identifier,
                              query_callable(scopes, identifier, error))
        /\ UNCHANGED scopes
        /\ OthersUnchangedBySymtab

\* the call returns (or its exception is caught): the caller takes the
\* result and is free to make the next call
Return ==
    /\ outcome # Idle
    /\ outcome' = Idle
    /\ UNCHANGED scopes
    /\ OthersUnchangedBySymtab

NextSymtab ==
    \/ NewScope \/ UnstackTopScope \/ Add
    \/ Query \/ QueryLabel \/ QueryConstant \/ QueryType \/ QueryVariable \/ QueryCallable
    \/ Return

(***************************************************************************)
(* typechecker.py                                                          *)
(*                                                                         *)
(* A TypeValue is a record of its class and, for a BuiltInType, its        *)
(* IntEnum value (ast.py lines 50-55).                                     *)
(***************************************************************************)
BuiltInType(value) == [tag |-> "BuiltInType", value |-> value]
BuiltInType_BOOLEAN == BuiltInType(0)
BuiltInType_INTEGER == BuiltInType(1)
BuiltInType_REAL == BuiltInType(2)
BuiltInType_CHAR == BuiltInType(3)
BuiltInType_STRING == BuiltInType(4)

BuiltInTypes == {BuiltInType_BOOLEAN, BuiltInType_INTEGER, BuiltInType_REAL, BuiltInType_CHAR, BuiltInType_STRING}

\* an EnumeratedType (a list of ConstantDefinition), identified by a number
EnumeratedType(id) == [tag |-> "EnumeratedType", value |-> id]

\* ast.py lines 108-110
BinaryOperators ==
    {"+", "-", "*", "/", "div", "mod", "and", "or", "in", "=", "<>", "<", ">", "<=", ">="}

\* Mutant of MaxType: the type of the left operand is returned
MaxType_Left(a, b) == a

\* max() of two IntEnum members
MaxType(a, b) == IF a.value >= b.value THEN a ELSE b

\* line 125: the operators of the relational branch, as the list is written
RelationalOperatorList == {"=", "<>", "<", ">", "<=", "=>"}

TypeCheckerError == [raised |-> "TypeCheckerError", type |-> BuiltInType(-1)]
Returns(type) == [raised |-> "", type |-> type]

\* TypeChecker.get_binary_operation_type (lines 89-138)
get_binary_operation_type(op) ==
    LET left_type == op.left
        right_type == op.right
    IN IF /\ op.operator \in {"+", "-", "*"}
          /\ left_type \in {BuiltInType_INTEGER, BuiltInType_REAL}
          /\ right_type \in {BuiltInType_INTEGER, BuiltInType_REAL}
       THEN Returns(MaxType(left_type, right_type))
       ELSE IF /\ op.operator = "/"
               /\ left_type \in {BuiltInType_INTEGER, BuiltInType_REAL}
               /\ right_type \in {BuiltInType_INTEGER, BuiltInType_REAL}
       THEN Returns(BuiltInType_REAL)
       ELSE IF /\ op.operator \in {"div", "mod"}
               /\ left_type = BuiltInType_INTEGER
               /\ right_type = BuiltInType_INTEGER
       THEN Returns(BuiltInType_INTEGER)
       ELSE IF /\ op.operator \in {"and", "or"}
               /\ left_type = BuiltInType_BOOLEAN
               /\ right_type = BuiltInType_BOOLEAN
       THEN Returns(BuiltInType_BOOLEAN)
       ELSE IF /\ op.operator \in RelationalOperatorList
               /\ left_type.tag = "BuiltInType"
               /\ left_type = right_type
       THEN Returns(BuiltInType_BOOLEAN)
       ELSE TypeCheckerError

OperandTypes == BuiltInTypes \cup {EnumeratedType(0)}

Pending == [raised |-> "pending", type |-> BuiltInType(-1)]

\* the operation of a type checker that has not been called
NoOperation == [operator |-> "+", left |-> BuiltInType_INTEGER, right |-> BuiltInType_INTEGER]

CheckBinaryOperation ==
    /\ tc_result = Pending
    /\ tc_result' = get_binary_operation_type(operation)
    /\ UNCHANGED operation
    /\ UNCHANGED <<peephole_vars, symtab_vars, indexation_vars, optimizer_vars, errors_vars, block_vars, parse_vars, range_vars, lexer_vars, compile_vars>>

NextTypes == CheckBinaryOperation

(***************************************************************************)
(* typechecker.py, indexation                                              *)
(*                                                                         *)
(* A ConstantValue is the pair of its Python class and its value; a        *)
(* RangeType and an ArrayType are records of their class and fields        *)
(* (ast.py lines 69-81).                                                   *)
(***************************************************************************)
ConstantValue(class, v) == <<class, v>>

RangeType(start, end, subtype) ==
    [tag |-> "RangeType", start |-> start, end |-> end, subtype |-> subtype]

ArrayType(subtype, dimensions) ==
    [tag |-> "ArrayType", subtype |-> subtype, dimensions |-> dimensions]

\* Mutant of can_assign: the two types are taken in the other order
can_assign_Swapped(left_type, right_type) ==
    \/ right_type = left_type
    \/ right_type = BuiltInType_REAL /\ left_type = BuiltInType_INTEGER
    \/ right_type = BuiltInType_STRING /\ left_type = BuiltInType_CHAR

\* TypeChecker.can_assign (lines 141-149)
can_assign(left_type, right_type) ==
    \/ left_type = right_type
    \/ left_type = BuiltInType_REAL /\ right_type = BuiltInType_INTEGER
    \/ left_type = BuiltInType_STRING /\ right_type = BuiltInType_CHAR

\* line 157: what a STRING is indexed as
StringAsArray ==
    ArrayType(BuiltInType_CHAR,
              <<RangeType(ConstantValue("int", 1), ConstantValue("int", 2048), BuiltInType_INTEGER)>>)

\* TypeChecker.type_after_indexation (lines 151-180)
type_after_indexation(array_type0, index_type) ==
    LET array_type == IF array_type0 = BuiltInType_STRING THEN StringAsArray ELSE array_type0
    IN IF array_type.tag # "ArrayType"
       THEN TypeCheckerError
       ELSE IF ~can_assign(array_type.dimensions[1].subtype, index_type)
       THEN TypeCheckerError
       ELSE IF Len(array_type.dimensions) > 1
       THEN Returns(ArrayType(array_type.subtype, Tail(array_type.dimensions)))
       ELSE Returns(array_type.subtype)

\* the ranges an array is declared over
Dimensions ==
    {RangeType(ConstantValue("int", 1), ConstantValue("int", 5), BuiltInType_INTEGER),
     RangeType(ConstantValue("str", "a"), ConstantValue("str", "c"), BuiltInType_CHAR)}

DimensionLists == UNION {[1..n -> Dimensions] : n \in 1..MaxDims}

ElementTypes ==
    {BuiltInType_INTEGER, BuiltInType_REAL, BuiltInType_STRING,
     ArrayType(BuiltInType_REAL,
               <<RangeType(ConstantValue("int", 1), ConstantValue("int", 5), BuiltInType_INTEGER)>>)}

ArrayTypes == {ArrayType(subtype, dimensions) : subtype \in ElementTypes, dimensions \in DimensionLists}

VariableTypes ==
    ArrayTypes \cup {BuiltInType_STRING, BuiltInType_BOOLEAN, BuiltInType_INTEGER, EnumeratedType(0),
                     RangeType(ConstantValue("int", 1), ConstantValue("int", 5), BuiltInType_INTEGER)}

IndexTypes == {BuiltInType_INTEGER, BuiltInType_CHAR, BuiltInType_REAL, BuiltInType_BOOLEAN}

\* one iteration of the loop of p_variable_usage (parser.py lines 659-668):
\* the next index is applied, and TypeCheckerError ends the loop
TypeAfterIndexation ==
    /\ ~ix_error
    /\ Len(indices) < MaxDims + 2
    /\ \E index_type \in IndexTypes :
          LET r == type_after_indexation(current_type, index_type)
          IN /\ indices' = Append(indices, index_type)
             /\ IF r.raised = ""
                THEN /\ current_type' = r.type
                     /\ ix_error' = FALSE
                ELSE /\ current_type' = current_type
                     /\ ix_error' = TRUE
    /\ UNCHANGED variable_type
    /\ UNCHANGED <<peephole_vars, symtab_vars, types_vars, optimizer_vars, errors_vars, block_vars, parse_vars, range_vars, lexer_vars, compile_vars>>

NextIndexation == TypeAfterIndexation

(***************************************************************************)
(* optimizer.py                                                            *)
(*                                                                         *)
(* An Expression (ast.py lines 125-128) is the pair of a node and its      *)
(* annotated type. It is a record of the class of the node, the operator   *)
(* and operands of an operation, the value of a constant or the name of a  *)
(* variable, and the annotated type. The value of a constant is a          *)
(* ConstantValue: TRUE or FALSE for a bool, an integer for an int and the  *)
(* fraction <<numerator, denominator>> in lowest terms for a float.        *)
(***************************************************************************)
Constant(value, type) ==
    [node |-> "Constant", operator |-> "", value |-> value, args |-> <<>>, type |-> type]

VariableUsage(name, type) ==
    [node |-> "VariableUsage", operator |-> "", value |-> <<"variable", name>>, args |-> <<>>,
     type |-> type]

UnaryOperation(operator, sub, type) ==
    [node |-> "UnaryOperation", operator |-> operator, value |-> <<>>, args |-> <<sub>>,
     type |-> type]

BinaryOperation(operator, left, right, type) ==
    [node |-> "BinaryOperation", operator |-> operator, value |-> <<>>, args |-> <<left, right>>,
     type |-> type]

\* an exception that left the optimizer instead of an Expression
Raised(error) ==
    [node |-> "Raised", operator |-> error, value |-> <<>>, args |-> <<>>, type |-> BuiltInType(-1)]

\* the expression of an optimizer that has not been called
NoExpression == Constant(ConstantValue("int", 0), BuiltInType_INTEGER)

\* ast.py line 118: UnaryOperator
UnaryOperators == {"+", "-", "not"}

\* TypeChecker.get_constant_type (typechecker.py lines 33-47), for the
\* classes bool, int, float and str
get_constant_type(constant) ==
    CASE constant[1] = "bool" -> BuiltInType_BOOLEAN
      [] constant[1] = "int" -> BuiltInType_INTEGER
      [] constant[1] = "float" -> BuiltInType_REAL
      [] constant[1] = "str" ->
            IF Len(constant[2]) = 1 THEN BuiltInType_CHAR ELSE BuiltInType_STRING

\* TypeChecker.get_unary_operation_type (typechecker.py lines 63-83)
get_unary_operation_type(op) ==
    IF op.operator \in {"+", "-"} /\ op.sub \in {BuiltInType_INTEGER, BuiltInType_REAL}
    THEN Returns(op.sub)
    ELSE IF op.operator = "not" /\ op.sub = BuiltInType_BOOLEAN
    THEN Returns(op.sub)
    ELSE TypeCheckerError

(* Python numbers: bool and int are integers, a float is a fraction *)
Abs(n) == IF n < 0 THEN -n ELSE n

RECURSIVE GCD(_, _)
GCD(a, b) == IF b = 0 THEN a ELSE GCD(b, a % b)

\* the fraction n/d in lowest terms with a positive denominator
Fraction(n, d) ==
    LET g == GCD(Abs(n), Abs(d))
        s == IF d < 0 THEN -1 ELSE 1
    IN <<(s * n) \div g, (s * d) \div g>>

\* floor(n / d) for d > 0
Floor(q) == q[1] \div q[2]

IsNumber(c) == c[1] \in {"bool", "int", "float"}

NumberOf(c) ==
    CASE c[1] = "bool" -> <<IF c[2] THEN 1 ELSE 0, 1>>
      [] c[1] = "int" -> <<c[2], 1>>
      [] c[1] = "float" -> c[2]

\* the Python number of value q: a float when an operand was a float
PyNumber(q, left, right) ==
    IF left[1] = "float" \/ right[1] = "float"
    THEN ConstantValue("float", q)
    ELSE ConstantValue("int", Floor(q))

PyBool(b) == ConstantValue("bool", b)

Value(c) == [raised |-> "", value |-> c]
Exception(error) == [raised |-> error, value |-> <<>>]

\* lines 59-65: operator.pos, operator.neg and operator.not_
unary_operation(operator, c) ==
    CASE operator = "+" /\ IsNumber(c) -> PyNumber(NumberOf(c), c, c)
      [] operator = "-" /\ IsNumber(c) ->
            PyNumber(Fraction(-NumberOf(c)[1], NumberOf(c)[2]), c, c)
      [] operator = "not" /\ IsNumber(c) -> PyBool(NumberOf(c)[1] = 0)
      [] operator = "not" /\ c[1] = "str" -> PyBool(Len(c[2]) = 0)

\* Mutant of ArithmeticResult: an arithmetic result is always an int
ArithmeticResult_Int(q, left, right) == ConstantValue("int", Floor(q))

\* the class of the result of +, -, *, // and %
ArithmeticResult(q, left, right) == PyNumber(q, left, right)

\* the order of Python on the strings of the model
Lexicographic == <<"", "a", "ab", "b", "c">>
StrRank(c) == CHOOSE k \in 1..Len(Lexicographic) : Lexicographic[k] = c[2]
BothStr(left, right) == left[1] = "str" /\ right[1] = "str"

\* lines 76-94: the functions of module operator, on numbers and, for the
\* relational operators, on strings (the type checker lets no other
\* operands through)
binary_operation(operator, left, right) ==
    LET a == NumberOf(left)
        b == NumberOf(right)
        quotient == Fraction(a[1] * b[2], a[2] * b[1])
    IN CASE operator = "=" /\ ~(IsNumber(left) /\ IsNumber(right)) -> Value(PyBool(left = right))
         [] operator = "<>" /\ ~(IsNumber(left) /\ IsNumber(right)) -> Value(PyBool(left # right))
         [] operator = "<" /\ BothStr(left, right) -> Value(PyBool(StrRank(left) < StrRank(right)))
         [] operator = ">" /\ BothStr(left, right) -> Value(PyBool(StrRank(left) > StrRank(right)))
         [] operator = "<=" /\ BothStr(left, right) -> Value(PyBool(StrRank(left) <= StrRank(right)))
         [] operator = ">=" /\ BothStr(left, right) -> Value(PyBool(StrRank(left) >= StrRank(right)))
         [] operator = "+" ->
                Value(ArithmeticResult(Fraction(a[1] * b[2] + b[1] * a[2], a[2] * b[2]), left, right))
         [] operator = "-" ->
                Value(ArithmeticResult(Fraction(a[1] * b[2] - b[1] * a[2], a[2] * b[2]), left, right))
         [] operator = "*" ->
                Value(ArithmeticResult(Fraction(a[1] * b[1], a[2] * b[2]), left, right))
         [] operator = "/" ->
                IF b[1] = 0 THEN Exception("ZeroDivisionError")
                ELSE Value(ConstantValue("float", quotient))
         [] operator = "div" ->
                IF b[1] = 0 THEN Exception("ZeroDivisionError")
                ELSE Value(ArithmeticResult(<<Floor(quotient), 1>>, left, right))
         [] operator = "mod" ->
                IF b[1] = 0 THEN Exception("ZeroDivisionError")
                ELSE Value(ArithmeticResult(
                         Fraction(a[1] * b[2] - Floor(quotient) * b[1] * a[2], a[2] * b[2]),
                         left, right))
         [] operator = "and" /\ left[1] = "bool" /\ right[1] = "bool" ->
                Value(PyBool(left[2] /\ right[2]))
         [] operator = "or" /\ left[1] = "bool" /\ right[1] = "bool" ->
                Value(PyBool(left[2] \/ right[2]))
         [] operator = "=" -> Value(PyBool(a = b))
         [] operator = "<>" -> Value(PyBool(a # b))
         [] operator = "<" -> Value(PyBool(a[1] * b[2] < b[1] * a[2]))
         [] operator = ">" -> Value(PyBool(a[1] * b[2] > b[1] * a[2]))
         [] operator = "<=" -> Value(PyBool(a[1] * b[2] <= b[1] * a[2]))
         [] operator = ">=" -> Value(PyBool(a[1] * b[2] >= b[1] * a[2]))

\* lines 76-91: the operators of the dictionary ('in' is not one of them)
FoldedOperators == BinaryOperators \ {"in"}

\* lines 58, 73-74: isinstance(sub[0], get_args(ConstantValue))
IsConstant(e) == e.node = "Constant"

IsRaised(e) == e.node = "Raised"

\* __constant_fold_expression (lines 54-98)
RECURSIVE constant_fold_expression(_)
constant_fold_expression(e) ==
    IF e.node = "UnaryOperation"
    THEN LET sub == constant_fold_expression(e.args[1])
         IN IF IsRaised(sub) THEN sub
            ELSE IF IsConstant(sub)
            THEN Constant(unary_operation(e.operator, sub.value), e.type)
            ELSE UnaryOperation(e.operator, sub, e.type)
    ELSE IF e.node = "BinaryOperation"
    THEN LET left == constant_fold_expression(e.args[1])
             right == constant_fold_expression(e.args[2])
         IN IF IsRaised(left) THEN left
            ELSE IF IsRaised(right) THEN right
            ELSE IF IsConstant(left) /\ IsConstant(right) /\ e.operator \in FoldedOperators
            THEN LET r == binary_operation(e.operator, left.value, right.value)
                 IN IF r.raised # "" THEN Raised(r.raised) ELSE Constant(r.value, e.type)
            ELSE BinaryOperation(e.operator, left, right, e.type)
    ELSE e

\* lines 101, 105: is the expression a UnaryOperation with operator 'not'
IsNot(e) == e.node = "UnaryOperation" /\ e.operator = "not"

\* lines 110-119: the relational operators and their complements
RelationalOperators == {"=", "<>", "<", ">", "<=", ">="}

\* Mutant of new_operator: < and > are exchanged
new_operator_Mirror(operator) ==
    CASE operator = "=" -> "<>"
      [] operator = "<>" -> "="
      [] operator = "<" -> ">"
      [] operator = ">" -> "<"
      [] operator = "<=" -> ">="
      [] operator = ">=" -> "<="

new_operator(operator) ==
    CASE operator = "=" -> "<>"
      [] operator = "<>" -> "="
      [] operator = "<" -> ">="
      [] operator = ">" -> "<="
      [] operator = "<=" -> ">"
      [] operator = ">=" -> "<"

\* Mutant of DeMorganOperator: the operator is kept
DeMorganOperator_Same(operator) == operator

\* line 133: new_operator = 'or' if expression[0].operator == 'and' else 'and'
DeMorganOperator(operator) == IF operator = "and" THEN "or" ELSE "and"

\* Mutant of DeMorgan: the operands keep their negation
DeMorgan_KeepNegated(e, left, right) ==
    UnaryOperation("not",
                   BinaryOperation(DeMorganOperator(e.operator), left, right, e.type),
                   e.type)

\* lines 135-144: De Morgan's laws
DeMorgan(e, left, right) ==
    UnaryOperation("not",
                   BinaryOperation(DeMorganOperator(e.operator), left.args[1], right.args[1], e.type),
                   e.type)

\* __simplify_expression (lines 100-148)
RECURSIVE simplify_expression(_)
simplify_expression(e) ==
    IF IsNot(e)
    THEN LET sub == simplify_expression(e.args[1])
         IN IF IsNot(sub)
            THEN sub.args[1]
            ELSE IF sub.node = "BinaryOperation" /\ sub.operator \in RelationalOperators
            THEN BinaryOperation(new_operator(sub.operator), sub.args[1], sub.args[2], e.type)
            ELSE UnaryOperation(e.operator, sub, e.type)
    ELSE IF e.node = "BinaryOperation" /\ e.operator \in {"and", "or"}
    THEN LET left == simplify_expression(e.args[1])
             right == simplify_expression(e.args[2])
         IN IF IsNot(left) /\ IsNot(right)
            THEN DeMorgan(e, left, right)
            ELSE BinaryOperation(e.operator, left, right, e.type)
    ELSE e

\* the constants and variables of the expressions that are optimized
Leaves ==
    {Constant(c, get_constant_type(c)) :
        c \in {PyBool(TRUE), PyBool(FALSE), ConstantValue("int", 0), ConstantValue("int", 2),
               ConstantValue("float", <<3, 2>>)}}
    \cup {VariableUsage("a", BuiltInType_BOOLEAN), VariableUsage("b", BuiltInType_BOOLEAN),
          VariableUsage("x", BuiltInType_INTEGER)}

\* p_factor_not, p_first_factor_signed: the operation and the type the type
\* checker returns for it
ParsedUnaryOperation(operator, sub) ==
    UnaryOperation(operator, sub,
                   get_unary_operation_type([operator |-> operator, sub |-> sub.type]).type)

\* p_expression_multiple, p_non_relational_expression_multiple,
\* p_first_term_multiple, p_term_multiple
ParsedBinaryOperation(operator, left, right) ==
    BinaryOperation(operator, left, right,
                    get_binary_operation_type([operator |-> operator,
                                               left |-> left.type,
                                               right |-> right.type]).type)

\* the type checker has returned the type of the expression
IsTyped(e) == e.type \in BuiltInTypes

\* the typed expressions of n nodes whose left operand has k nodes (k = 0:
\* a unary operation); an operation the type checker rejects is no expression
RECURSIVE ExpressionsOfSize(_)
RECURSIVE ExpressionsSplitUpTo(_, _)
ExpressionsSplitAt(n, k) ==
    IF k = 0
    THEN {e \in {ParsedUnaryOperation(operator, sub) :
                    operator \in UnaryOperators, sub \in ExpressionsOfSize(n - 1)} :
             IsTyped(e)}
    ELSE {e \in {ParsedBinaryOperation(operator, left, right) :
                    operator \in BinaryOperators,
                    left \in ExpressionsOfSize(k),
                    right \in ExpressionsOfSize(n - 1 - k)} :
             IsTyped(e)}

ExpressionsSplitUpTo(n, k) ==
    IF k = 0 THEN ExpressionsSplitAt(n, 0)
    ELSE ExpressionsSplitAt(n, k) \cup ExpressionsSplitUpTo(n, k - 1)

\* the typed expressions of n nodes
ExpressionsOfSize(n) ==
    IF n = 1 THEN Leaves ELSE ExpressionsSplitUpTo(n, n - 2)

\* lines 150-155: the replacer of optimize_ast folds the expression ...
ConstantFold ==
    /\ stage = "fold"
    /\ runs < MaxRuns
    /\ tree' = constant_fold_expression(tree)
    /\ stage' = IF IsRaised(tree') THEN "raised" ELSE "simplify"
    /\ UNCHANGED <<expression, runs, optimized>>
    /\ UNCHANGED <<peephole_vars, symtab_vars, types_vars, indexation_vars, errors_vars, block_vars, parse_vars, range_vars, lexer_vars, compile_vars>>

\* ... and simplifies what the folding returned; the optimizer may then be
\* run again over the tree it has left
Simplify ==
    /\ stage = "simplify"
    /\ tree' = simplify_expression(tree)
    /\ runs' = runs + 1
    /\ optimized' = IF runs = 0 THEN tree' ELSE optimized
    /\ stage' = IF runs' < MaxRuns THEN "fold" ELSE "done"
    /\ UNCHANGED expression
    /\ UNCHANGED <<peephole_vars, symtab_vars, types_vars, indexation_vars, errors_vars, block_vars, parse_vars, range_vars, lexer_vars, compile_vars>>

NextOptimizer == ConstantFold \/ Simplify

(***************************************************************************)
(* parser.py: diagnostics and the declaration sections of a block          *)
(***************************************************************************)
\* _Parser.print_error, lines 49-64: the diagnostic is printed, and
\* has_errors is set unless it is a warning
print_error(parser, error_message, start, warning) ==
    [has_errors  |-> IF ~warning THEN TRUE ELSE parser.has_errors,
     diagnostics |-> Append(parser.diagnostics,
                            [message |-> error_message, start |-> start, warning |-> warning])]

\* the keys of the dictionary blocks of p_block, in insertion order
BlockTypes == <<"LABEL", "CONST", "TYPE", "VAR", "CALL">>

\* position of a key in the dictionary blocks
BlockOrder(block_type) == CHOOSE k \in 1..Len(BlockTypes) : BlockTypes[k] = block_type

\* the value None of the dictionary blocks (an integer that is neither -1
\* nor an index of p[1])
blocks_None == -2

\* lines 120-126
InitialBlocks == [block_type \in {BlockTypes[k] : k \in 1..Len(BlockTypes)} |-> blocks_None]

\* lines 129-133: every kind before block_type that is still None becomes -1
MarkBefore_Never(blocks, block_type) == blocks

MarkBefore(blocks, block_type) ==
    [before \in DOMAIN blocks |->
        IF BlockOrder(before) < BlockOrder(block_type) /\ blocks[before] = blocks_None
        THEN -1 ELSE blocks[before]]

WrongOrder == "Blocks in the wrong order"
DefinedTwice == "block defined twice"
LabelNotAssigned == "Label was used but not assigned to any statement"

\* lines 128-147: the loop over p[1], from section n (1-based here; the
\* index stored in blocks is the 0-based i of the code)
RECURSIVE BlockLoop(_, _, _, _)
BlockLoop(list, n, blocks, parser) ==
    IF n > Len(list) THEN [blocks |-> blocks, parser |-> parser]
    ELSE LET block_type == list[n][1]
             marked == MarkBefore(blocks, block_type)
         IN IF marked[block_type] = blocks_None
            THEN BlockLoop(list, n + 1, [marked EXCEPT ![block_type] = n - 1], parser)
            ELSE IF marked[block_type] = -1
            THEN BlockLoop(list, n + 1, marked, print_error(parser, WrongOrder, n - 1, FALSE))
            ELSE BlockLoop(list, n + 1, marked, print_error(parser, DefinedTwice, n - 1, FALSE))

\* lines 149-154
get_block(list, blocks, name) ==
    LET index == blocks[name]
    IN IF index = blocks_None \/ index = -1 THEN <<>> ELSE list[index + 1][2]

\* ast.py lines 29-36 (the body is left out: p_block copies p[2] into it)
Block(labels, constants, types, variables, callables) ==
    [labels |-> labels, constants |-> constants, types |-> types,
     variables |-> variables, callables |-> callables]

NoBlock == Block(<<>>, <<>>, <<>>, <<>>, <<>>)

\* ast.py lines 38-42; statement is reduced to whether it is None
LabelDefinition(name, statement_is_None, used) ==
    [name |-> name, statement_is_None |-> statement_is_None, used |-> used]

\* lines 165-172: one error for each used label without a statement
RECURSIVE LabelLoop(_, _, _)
LabelLoop(labels, n, parser) ==
    IF n > Len(labels) THEN parser
    ELSE IF labels[n].used /\ labels[n].statement_is_None
    THEN LabelLoop(labels, n + 1, print_error(parser, LabelNotAssigned, 0, FALSE))
    ELSE LabelLoop(labels, n + 1, parser)

\* the label sections a program can hold when its body has been parsed
LabelLists ==
    {<<LabelDefinition(1, unassigned, used)>> : unassigned \in BOOLEAN, used \in BOOLEAN}

\* the other sections, named by what they hold
OtherLists == {<<1>>, <<2>>}

\* an element of p[1] without its position: (block_type, content)
AnyBlocks ==
    {<<"LABEL", l>> : l \in LabelLists}
        \cup {<<BlockTypes[k], l>> : k \in 2..Len(BlockTypes), l \in OtherLists}

RECURSIVE AnyBlockLists(_)
AnyBlockLists(n) ==
    IF n = 0 THEN {<<>>}
    ELSE AnyBlockLists(n - 1)
            \cup {Append(l, b) : l \in {x \in AnyBlockLists(n - 1) : Len(x) = n - 1}, b \in AnyBlocks}

\* p_block, lines 115-172
p_block ==
    /\ block_pc = "sections"
    /\ LET looped == BlockLoop(any_block_list, 1, InitialBlocks,
                               [has_errors |-> has_errors, diagnostics |-> diagnostics])
           labels == get_block(any_block_list, looped.blocks, "LABEL")
           parser == LabelLoop(labels, 1, looped.parser)
       IN /\ block' = Block(labels,
                            get_block(any_block_list, looped.blocks, "CONST"),
                            get_block(any_block_list, looped.blocks, "TYPE"),
                            get_block(any_block_list, looped.blocks, "VAR"),
                            get_block(any_block_list, looped.blocks, "CALL"))
          /\ has_errors' = parser.has_errors
          /\ diagnostics' = parser.diagnostics
    /\ block_pc' = "block"
    /\ UNCHANGED any_block_list
    /\ UNCHANGED <<peephole_vars, symtab_vars, types_vars, indexation_vars, optimizer_vars, parse_vars, range_vars, lexer_vars, compile_vars>>

NextBlock == p_block

(***************************************************************************)
(* parser.py: the productions around callable definitions and calls, as    *)
(* ply reduces them during one parse(). The scope stack is the one of the  *)
(* symbol table above; positions in the source text are left out.          *)
(***************************************************************************)
NoCalls == {}

\* self.has_errors and what was printed, as one value
Self == [has_errors |-> has_errors, diagnostics |-> diagnostics]

\* the symbol table and the type checker print through error.print_error
\* (symboltable.py line 88, typechecker.py line 132): has_errors is untouched
Printed(parser, message, severity) ==
    IF severity = "" THEN parser
    ELSE [has_errors  |-> parser.has_errors,
          diagnostics |-> Append(parser.diagnostics,
                                 [message |-> message, start |-> 0,
                                  warning |-> (severity = "warning")])]

\* except SymbolTableError / except TypeCheckerError: self.has_errors = True
Except(parser) == [parser EXCEPT !.has_errors = TRUE]

SymbolTableMessage == "symbol table"
TypeCheckerMessage == "type checker"

\* try: self.symbols.add(value) except SymbolTableError: self.has_errors = True
TryAdd(parser, scs, value) ==
    LET r == add(scs, value)
        printed == Printed(parser, SymbolTableMessage, r.diag)
    IN [scopes |-> r.scopes,
        parser |-> IF r.raised # "" THEN Except(printed) ELSE printed,
        raised |-> r.raised]

\* the identifiers of the parsed program
S_f == <<"f">>
S_g == <<"g">>
CallableNames == {S_f, S_g}

VariableDefinition(name) == Definition("VariableDefinition", name, "INTEGER")
CallableDefinition(name, is_function) ==
    Definition("CallableDefinition", name, IF is_function THEN "function" ELSE "procedure")

\* what a heading leaves on the parser's stack (lines 784-796)
Heading(name, is_function) == [name |-> name, is_function |-> is_function]

\* the callable whose body the parser is in; the empty name is the program
Caller == IF open_callables = <<>> THEN <<>> ELSE open_callables[Len(open_callables)].name

\* the names of the callables whose definitions are open
OpenNames == {Lower(open_callables[k].name) : k \in 1..Len(open_callables)}

\* the rest of the input is followed while few diagnostics were printed
Following == parse_pc # "done" /\ Len(diagnostics) < MaxDiagnostics

OthersUnchangedByParser ==
    UNCHANGED <<peephole_vars, outcome, types_vars, indexation_vars, optimizer_vars, block_vars, range_vars, lexer_vars, compile_vars>>

\* p_new_scope, lines 798-802: reduced after PROCEDURE ID or FUNCTION ID
p_new_scope ==
    /\ Following
    /\ parse_pc \in {"block", "callables"}
    /\ started < MaxCallables
    /\ Len(open_callables) < MaxNesting
    /\ \E name \in CallableNames, is_function \in BOOLEAN :
          open_callables' = Append(open_callables, Heading(name, is_function))
    /\ scopes' = new_scope(scopes)
    /\ started' = started + 1
    /\ parse_pc' = "heading"
    /\ UNCHANGED <<errors_vars, recovering_from, calls, attempts, parse_result>>
    /\ OthersUnchangedByParser

\* p_parameter, lines 829-843, for a list of one identifier
p_parameter ==
    /\ Following
    /\ parse_pc = "heading"
    /\ \E identifier \in CallableNames :
          LET r == TryAdd(Self, scopes, VariableDefinition(identifier))
          IN /\ scopes' = r.scopes
             /\ has_errors' = r.parser.has_errors
             /\ diagnostics' = r.parser.diagnostics
    /\ UNCHANGED parse_vars
    /\ OthersUnchangedByParser

\* p_new_scope_procedure, lines 784-788
p_new_scope_procedure ==
    /\ Following
    /\ parse_pc = "heading"
    /\ ~open_callables[Len(open_callables)].is_function
    /\ parse_pc' = "block"
    /\ UNCHANGED <<scopes, errors_vars, open_callables, recovering_from, started, calls,
                   attempts, parse_result>>
    /\ OthersUnchangedByParser

\* p_function_heading, lines 790-796: the add of the return variable is not
\* inside a try, so a SymbolTableError leaves parse() through parse_wrapper
\* (lines 1498-1503) before has_errors is looked at
p_function_heading ==
    /\ Following
    /\ parse_pc = "heading"
    /\ open_callables[Len(open_callables)].is_function
    /\ LET r == add(scopes, VariableDefinition(open_callables[Len(open_callables)].name))
           printed == Printed(Self, SymbolTableMessage, r.diag)
       IN /\ scopes' = r.scopes
          /\ has_errors' = printed.has_errors
          /\ diagnostics' = printed.diagnostics
          /\ parse_pc' = IF r.raised # "" THEN "done" ELSE "block"
          /\ parse_result' = r.raised
    /\ UNCHANGED <<open_callables, recovering_from, started, calls, attempts>>
    /\ OthersUnchangedByParser

\* p_begin_end_statement_empty, lines 1172-1182: BEGIN END
p_begin_end_statement_empty ==
    /\ Following
    /\ parse_pc = "block"
    /\ LET parser == print_error(Self, "Empty compound statements are not allowed", 0, FALSE)
       IN /\ has_errors' = parser.has_errors
          /\ diagnostics' = parser.diagnostics
    /\ parse_pc' = "body"
    /\ UNCHANGED <<scopes, open_callables, recovering_from, started, calls, attempts, parse_result>>
    /\ OthersUnchangedByParser

\* p_callable_call, lines 845-915, for a callable the program defined
\* (definition.parameters is a list): whether the arguments match the
\* parameters in number and type is mismatch
callable_call(parser, scs, identifier, mismatch) ==
    LET q == query_callable(scs, identifier, TRUE)
        printed == Printed(parser, SymbolTableMessage, q.diag)
    IN IF q.raised # ""
       THEN [parser |-> Except(printed), called |-> {}]
       ELSE [parser |-> IF mismatch /\ q.result.value # "builtin"
                        THEN print_error(printed, "Wrong number of arguments", 0, FALSE)
                        ELSE printed,
             called |-> {q.result.name}]

\* a call inside the body of the callable that is called
OwnBody(identifier) == IF Lower(identifier) \in OpenNames THEN {<<Caller, Lower(identifier)>>} ELSE {}

\* unlabeled-statement : callable-call (line 1293) reduces p_callable_call
p_callable_call ==
    /\ Following
    /\ parse_pc \in {"block", "body"}
    /\ \E identifier \in CallableNames, mismatch \in BOOLEAN :
          LET r == callable_call(Self, scopes, identifier, mismatch)
          IN /\ has_errors' = r.parser.has_errors
             /\ diagnostics' = r.parser.diagnostics
             /\ calls' = calls \cup {<<Caller, callee>> : callee \in r.called}
             /\ attempts' = attempts \cup OwnBody(identifier)
    /\ parse_pc' = "body"
    /\ UNCHANGED <<scopes, open_callables, recovering_from, started, parse_result>>
    /\ OthersUnchangedByParser

\* p_factor_id, lines 1097-1149: p[2] is (tag, list) and nonempty says
\* whether the list has elements
factor_id(parser, scs, identifier, tag, nonempty, mismatch) ==
    LET q == query(scs, identifier, TRUE)
        printed == Printed(parser, SymbolTableMessage, q.diag)
    IN IF q.raised # ""
       THEN [parser |-> Except(printed), called |-> {}]
       ELSE IF q.result.kind = "ConstantDefinition"
       THEN [parser |-> IF ~nonempty THEN printed
                        ELSE print_error(printed, "Attempting to call or index constant", 0, FALSE),
             called |-> {}]
       ELSE IF q.result.kind = "VariableDefinition"
       THEN [parser |-> IF tag = "VAR" THEN printed
                        ELSE print_error(printed, "Attempting to call variable", 0, FALSE),
             called |-> {}]
       ELSE IF q.result.kind = "CallableDefinition"
       THEN IF q.result.value # "function"
            THEN [parser |-> print_error(printed, "This is a procedure and not a function", 0, FALSE),
                  called |-> {}]
            ELSE IF tag = "CALL" \/ ~nonempty
            THEN callable_call(printed, scs, identifier, mismatch)
            ELSE [parser |-> print_error(printed, "Attempting to index function", 0, FALSE),
                  called |-> {}]
       ELSE [parser |-> printed, called |-> {}]

\* the forms of p[2]: a bare identifier is ('VAR', []), since ply settles
\* the two empty productions for the one declared first (line 672)
FactorForms == {<<"VAR", FALSE>>, <<"VAR", TRUE>>, <<"CALL", TRUE>>}

\* a factor in an expression of a statement
p_factor_id ==
    /\ Following
    /\ parse_pc \in {"block", "body"}
    /\ \E identifier \in CallableNames, form \in FactorForms, mismatch \in BOOLEAN :
          LET r == factor_id(Self, scopes, identifier, form[1], form[2], mismatch)
          IN /\ has_errors' = r.parser.has_errors
             /\ diagnostics' = r.parser.diagnostics
             /\ calls' = calls \cup {<<Caller, callee>> : callee \in r.called}
             /\ attempts' = attempts \cup (IF form[1] = "CALL" THEN OwnBody(identifier) ELSE {})
    /\ parse_pc' = "body"
    /\ UNCHANGED <<scopes, open_callables, recovering_from, started, parse_result>>
    /\ OthersUnchangedByParser

\* the operations whose type the expression productions ask for
ParsedOperations ==
    {[operator |-> operator, left |-> left, right |-> BuiltInType_INTEGER] :
        operator \in {"<", "+"}, left \in {BuiltInType_INTEGER, BuiltInType_BOOLEAN}}

\* p_expression_multiple, lines 948-958 (and the productions shaped like it,
\* lines 979-1043)
p_expression_multiple ==
    /\ Following
    /\ parse_pc \in {"block", "body"}
    /\ \E op \in ParsedOperations :
          LET r == get_binary_operation_type(op)
              printed == Printed(Self, TypeCheckerMessage, IF r.raised # "" THEN "error" ELSE "")
              parser == IF r.raised # "" THEN Except(printed) ELSE printed
          IN /\ has_errors' = parser.has_errors
             /\ diagnostics' = parser.diagnostics
    /\ parse_pc' = "body"
    /\ UNCHANGED <<scopes, open_callables, recovering_from, started, calls, attempts, parse_result>>
    /\ OthersUnchangedByParser

\* lines 751-757 and 770-776, shared by the two callable-definition
\* productions: the scope is popped, then the callable is added
CallableDefined ==
    LET heading == open_callables[Len(open_callables)]
        r == TryAdd(Self, unstack_top_scope(scopes), CallableDefinition(heading.name, heading.is_function))
    IN /\ scopes' = r.scopes
       /\ has_errors' = r.parser.has_errors
       /\ diagnostics' = r.parser.diagnostics
       /\ open_callables' = SubSeq(open_callables, 1, Len(open_callables) - 1)
       /\ parse_pc' = "callables"

\* p_callable_definition_procedure, lines 741-758
p_callable_definition_procedure ==
    /\ Following
    /\ parse_pc = "body"
    /\ open_callables # <<>>
    /\ ~open_callables[Len(open_callables)].is_function
    /\ CallableDefined
    /\ UNCHANGED <<recovering_from, started, calls, attempts, parse_result>>
    /\ OthersUnchangedByParser

\* p_callable_definition_function, lines 760-777
p_callable_definition_function ==
    /\ Following
    /\ parse_pc = "body"
    /\ open_callables # <<>>
    /\ open_callables[Len(open_callables)].is_function
    /\ CallableDefined
    /\ UNCHANGED <<recovering_from, started, calls, attempts, parse_result>>
    /\ OthersUnchangedByParser

\* p_callable_block, lines 708-726: the ';' after a callable-list
p_callable_block ==
    /\ Following
    /\ parse_pc = "callables"
    /\ LET parser == IF Len(scopes) > 1
                     THEN print_error(Self, "Nested procedures / functions are not supported", 0, FALSE)
                     ELSE Self
       IN /\ has_errors' = parser.has_errors
          /\ diagnostics' = parser.diagnostics
    /\ parse_pc' = "block"
    /\ UNCHANGED <<scopes, open_callables, recovering_from, started, calls, attempts, parse_result>>
    /\ OthersUnchangedByParser

\* p_error, lines 1477-1493, at a token that is not the end of the input;
\* ply then unwinds its stack to where callable-definition : error fits
p_error ==
    /\ Following
    /\ parse_pc \in {"block", "heading", "body", "callables"}
    /\ LET parser == print_error(Self, "Unexpected token", 0, FALSE)
       IN /\ has_errors' = parser.has_errors
          /\ diagnostics' = parser.diagnostics
    /\ recovering_from' = parse_pc
    /\ parse_pc' = "recovering"
    /\ UNCHANGED <<scopes, open_callables, started, calls, attempts, parse_result>>
    /\ OthersUnchangedByParser

\* p_callable_definition_error, lines 779-782: the body is empty. An error
\* in a heading is unwound to before PROCEDURE / FUNCTION, so that heading
\* is given up; an error further on is unwound to the start of the block
\* the parser is in, and the error stands for a callable of that block.
p_callable_definition_error ==
    /\ parse_pc = "recovering"
    /\ open_callables' = IF recovering_from = "heading"
                         THEN SubSeq(open_callables, 1, Len(open_callables) - 1)
                         ELSE open_callables
    /\ parse_pc' = "callables"
    /\ recovering_from' = ""
    /\ UNCHANGED <<scopes, errors_vars, started, calls, attempts, parse_result>>
    /\ OthersUnchangedByParser

\* what parse_wrapper does with what ply's parse returned, lines 1498-1503
parse_wrapper(parser) == IF parser.has_errors THEN "ParserError" ELSE "AST"

\* p_program, lines 68-72, after the '.' of the program, and the return of
\* parse_wrapper
p_program ==
    /\ parse_pc = "body"
    /\ open_callables = <<>>
    /\ parse_result' = parse_wrapper(Self)
    /\ parse_pc' = "done"
    /\ UNCHANGED <<scopes, errors_vars, open_callables, recovering_from, started, calls, attempts>>
    /\ OthersUnchangedByParser

\* p_error with t = None, lines 1481-1486: the input ends early, ply's
\* parse returns None and parse_wrapper finds has_errors set
p_error_end_of_file ==
    /\ parse_pc \notin {"idle", "done"}
    /\ LET parser == print_error(Self, "Unexpected end-of-file", 0, FALSE)
       IN /\ has_errors' = parser.has_errors
          /\ diagnostics' = parser.diagnostics
          /\ parse_result' = parse_wrapper(parser)
    /\ parse_pc' = "done"
    /\ UNCHANGED <<scopes, open_callables, recovering_from, started, calls, attempts>>
    /\ OthersUnchangedByParser

NextParser ==
    \/ p_new_scope
    \/ p_parameter
    \/ p_new_scope_procedure
    \/ p_function_heading
    \/ p_begin_end_statement_empty
    \/ p_callable_call
    \/ p_factor_id
    \/ p_expression_multiple
    \/ p_callable_definition_procedure
    \/ p_callable_definition_function
    \/ p_callable_block
    \/ p_error
    \/ p_callable_definition_error
    \/ p_program
    \/ p_error_end_of_file

(***************************************************************************)
(* parser.py: the production range-type, with the constants it is given    *)
(* and the two TypeChecker methods it calls.                               *)
(***************************************************************************)
\* ast.py lines 63-67: a constant of an enumerated type
EnumeratedTypeConstantValue(name, value, constant_type) ==
    <<"enum", name, value, constant_type>>

\* constant_type of an enumerated constant that no type-definition has named
\* (parser.py line 459 builds it with None, line 398 sets it)
constant_type_None == ""

\* p[0] of a constant production that failed (it is never assigned)
Constant_None == <<"None", 0>>

NoRange == [tag |-> "NoRange"]

\* the code point of a one-character string
ord(c) == CASE c = "a" -> 97 [] c = "b" -> 98

\* TypeChecker.get_constant_type (typechecker.py lines 33-47), every class
TypeChecker_get_constant_type(constant) ==
    CASE constant[1] \in {"bool", "int", "float", "str"} ->
            Returns(get_constant_type(constant))
      [] constant[1] = "enum" ->
            IF constant[4] = constant_type_None
            THEN [raised |-> "AssertionError", type |-> BuiltInType(-1)]
            ELSE Returns(EnumeratedType(constant[4]))
      [] OTHER -> TypeCheckerError

\* TypeChecker.get_constant_ordinal_value (typechecker.py lines 49-59)
get_constant_ordinal_value(constant) ==
    CASE constant[1] = "bool" -> [raised |-> "", value |-> IF constant[2] THEN 1 ELSE 0]
      [] constant[1] = "int" -> [raised |-> "", value |-> constant[2]]
      [] constant[1] = "str" /\ Len(constant[2]) = 1 ->
            [raised |-> "", value |-> ord(constant[2])]
      [] constant[1] = "enum" -> [raised |-> "", value |-> constant[3]]
      [] OTHER -> [raised |-> "TypeCheckerError", value |-> 0]

\* type1 != type2 (parser.py line 478)
TypesDiffer(type1, type2) == type1.tag # type2.tag \/ type1.value # type2.value

DifferentTypes == "Types of elements in range type are different"
NotOrdinal == "Type of elements in range type is not ordinal"
UpperBelowLower == "Range's upper bound is lower than its lower bound"
ConstantMessage == "constant"

\* RangeType(1, 1, BuiltInType.INTEGER)
FallbackRange == RangeType(ConstantValue("int", 1), ConstantValue("int", 1), BuiltInType_INTEGER)

\* the comparison of line 501, which decides whether the range is refused
Reversed(value1, value2) == value1 > value2

\* p_range_type (parser.py lines 469-509): p[0], the parser afterwards and
\* the exception that leaves the production, if any
range_type_production(parser, p1, p3) ==
    LET type1 == TypeChecker_get_constant_type(p1)
        type2 == TypeChecker_get_constant_type(p3)
        value1 == get_constant_ordinal_value(p1)
        value2 == get_constant_ordinal_value(p3)
        Fallback(after) == [p0 |-> FallbackRange, parser |-> after, raised |-> ""]
    IN IF type1.raised = "AssertionError" 
       THEN [p0 |-> NoRange, parser |-> parser, raised |-> "AssertionError"]
       ELSE IF type1.raised = "TypeCheckerError" THEN Fallback(Except(parser))
       ELSE IF type2.raised = "AssertionError"
       THEN [p0 |-> NoRange, parser |-> parser, raised |-> "AssertionError"]
       ELSE IF type2.raised = "TypeCheckerError" THEN Fallback(Except(parser))
       ELSE IF TypesDiffer(type1.type, type2.type)
       THEN Fallback(print_error(parser, DifferentTypes, 0, FALSE))
       ELSE IF value1.raised # "" \/ value2.raised # ""
       THEN Fallback(print_error(parser, NotOrdinal, 0, FALSE))
       ELSE IF Reversed(value1.value, value2.value)
       THEN Fallback(print_error(parser, UpperBelowLower, 0, FALSE))
       ELSE [p0 |-> RangeType(p1, p3, type1.type), parser |-> parser, raised |-> ""]

\* the constants a range can be written with: literals, the constants of
\* the named enumerated types color = (red, green) and size = (small), the
\* constants of the unnamed type of a variable declared as (off, on), and
\* the result of a constant that was refused
RangeConstants ==
    {ConstantValue("bool", b) : b \in BOOLEAN}
        \cup {ConstantValue("int", n) : n \in 0..MaxOrdinal}
        \cup {ConstantValue("float", Fraction(3, 2))}
        \cup {ConstantValue("str", s) : s \in {"a", "b", "ab"}}
        \cup {EnumeratedTypeConstantValue("red", 0, "color"),
              EnumeratedTypeConstantValue("green", 1, "color"),
              EnumeratedTypeConstantValue("small", 0, "size"),
              EnumeratedTypeConstantValue("off", 0, constant_type_None),
              EnumeratedTypeConstantValue("on", 1, constant_type_None)}
        \cup {Constant_None}

\* constant (parser.py lines 291-353): one bound is reduced; a constant that
\* is refused was reported by the production, the symbol table or the type
\* checker, and has_errors is set
p_constant ==
    /\ range_pc = "constants"
    /\ Len(range_bounds) < 2
    /\ \E constant \in RangeConstants :
        /\ range_bounds' = Append(range_bounds, constant)
        /\ LET parser == IF constant = Constant_None
                         THEN print_error(Self, ConstantMessage, 0, FALSE)
                         ELSE Self
           IN /\ has_errors' = parser.has_errors
              /\ diagnostics' = parser.diagnostics
    /\ UNCHANGED <<range_type, range_pc>>
    /\ UNCHANGED <<peephole_vars, symtab_vars, types_vars, indexation_vars, optimizer_vars, block_vars, parse_vars, lexer_vars, compile_vars>>

\* range-type : constant RANGE constant
p_range_type ==
    /\ range_pc = "constants"
    /\ Len(range_bounds) = 2
    /\ LET r == range_type_production(Self, range_bounds[1], range_bounds[2])
       IN /\ range_type' = r.p0
          /\ has_errors' = r.parser.has_errors
          /\ diagnostics' = r.parser.diagnostics
          /\ range_pc' = IF r.raised = "" THEN "reduced" ELSE "raised"
    /\ UNCHANGED range_bounds
    /\ UNCHANGED <<peephole_vars, symtab_vars, types_vars, indexation_vars, optimizer_vars, block_vars, parse_vars, lexer_vars, compile_vars>>

NextRange ==
    \/ p_constant
    \/ p_range_type

(***************************************************************************)
(* lexer.py: the rules of _Lexer as ply.lex runs them over one source.     *)
(* Positions are 0-based as in Python: the character at lexpos p is        *)
(* lexdata[p + 1]. The source is written with one letter, one character    *)
(* no rule accepts, a blank, the newline, the two braces and the quote.    *)
(***************************************************************************)
Letter == "a"
Hash == "#"
Blank == " "
Newline == "\n"
LBrace == "{"
RBrace == "}"
Quote == "'"

Chars == {Letter, Hash, Blank, Newline, LBrace, RBrace, Quote}

CharAt(data, p) == data[p + 1]

\* the end of the longest run of characters of S that starts at p
RECURSIVE RunEnd(_, _, _)
RunEnd(data, p, S) ==
    IF p < Len(data) /\ CharAt(data, p) \in S THEN RunEnd(data, p + 1, S) ELSE p

\* t_ignore_COMMENT (line 82): ({|\(\*)((?!{|\(\*)(.|\n))*?(}|\*\)) tried
\* at p; the end of the match, -1 without one. The body is lazy and holds
\* no opening brace, so the match ends at the first closing brace.
CommentEnd(data, p) ==
    LET closers == {q \in (p + 1)..(Len(data) - 1) :
                        /\ CharAt(data, q) = RBrace
                        /\ \A k \in (p + 1)..(q - 1) : CharAt(data, k) \notin {LBrace, RBrace}}
    IN IF CharAt(data, p) = LBrace /\ closers # {}
       THEN (CHOOSE q \in closers : TRUE) + 1
       ELSE -1

\* ((?:''|[^'])*) matches data[k..q) exactly
RECURSIVE StringBody(_, _, _)
StringBody(data, k, q) ==
    IF k = q THEN TRUE
    ELSE IF CharAt(data, k) # Quote THEN StringBody(data, k + 1, q)
    ELSE k + 1 < q /\ CharAt(data, k + 1) = Quote /\ StringBody(data, k + 2, q)

\* t_STRING (lines 240-243): '((?:''|[^'])*)' tried at p; the body is greedy,
\* so the match ends at the last quote that a body can precede
StringEnd(data, p) ==
    LET closers == {q \in (p + 1)..(Len(data) - 1) :
                        CharAt(data, q) = Quote /\ StringBody(data, p + 1, q)}
    IN IF CharAt(data, p) = Quote /\ closers # {}
       THEN (CHOOSE q \in closers : \A r \in closers : r <= q) + 1
       ELSE -1

\* a LexToken: type, lexpos and lineno
LexToken(type, position, line) == [type |-> type, lexpos |-> position, lineno |-> line]

\* commit_error (lines 286-299) on the fields of _Lexer it reads and writes
commit_error(lexer) ==
    IF lexer.last_error # <<>>
    THEN [last_error |-> <<>>,
          has_errors |-> TRUE,
          reported   |-> Append(lexer.reported,
                                [line_number |-> lexer.lineno,
                                 start |-> lexer.last_error[1],
                                 length |-> lexer.last_error[2]]),
          lineno     |-> lexer.lineno]
    ELSE lexer

LexerSelf ==
    [last_error |-> last_error, has_errors |-> lexer_has_errors,
     reported |-> reported, lineno |-> lineno]

Lexing == lex_pc = "lexing" /\ lexpos < Len(lexdata)

\* t_ignore = ' \t\r' (line 80): ply skips the character
t_ignore ==
    /\ Lexing
    /\ CharAt(lexdata, lexpos) = Blank
    /\ lexpos' = lexpos + 1
    /\ UNCHANGED <<lexdata, lineno, last_error, lexer_has_errors, reported, tokens, unrecognized, lex_pc>>
    /\ UNCHANGED <<peephole_vars, symtab_vars, types_vars, indexation_vars, optimizer_vars, errors_vars, block_vars, parse_vars, range_vars, compile_vars>>

\* t_ID (lines 225-227): [a-z][a-z0-9]*
t_ID ==
    /\ Lexing
    /\ CharAt(lexdata, lexpos) = Letter
    /\ tokens' = Append(tokens, LexToken("ID", lexpos, lineno))
    /\ lexpos' = RunEnd(lexdata, lexpos, {Letter})
    /\ UNCHANGED <<lexdata, lineno, last_error, lexer_has_errors, reported, unrecognized, lex_pc>>
    /\ UNCHANGED <<peephole_vars, symtab_vars, types_vars, indexation_vars, optimizer_vars, errors_vars, block_vars, parse_vars, range_vars, compile_vars>>

\* t_STRING (lines 240-243)
t_STRING ==
    /\ Lexing
    /\ StringEnd(lexdata, lexpos) # -1
    /\ tokens' = Append(tokens, LexToken("STRING", lexpos, lineno))
    /\ lexpos' = StringEnd(lexdata, lexpos)
    /\ UNCHANGED <<lexdata, lineno, last_error, lexer_has_errors, reported, unrecognized, lex_pc>>
    /\ UNCHANGED <<peephole_vars, symtab_vars, types_vars, indexation_vars, optimizer_vars, errors_vars, block_vars, parse_vars, range_vars, compile_vars>>

\* t_ignore_COMMENT (line 82): a rule without a function whose token is
\* discarded; ply moves past the match and does nothing else
t_ignore_COMMENT ==
    /\ Lexing
    /\ CommentEnd(lexdata, lexpos) # -1
    /\ lexpos' = CommentEnd(lexdata, lexpos)
    /\ UNCHANGED <<lexdata, lineno, last_error, lexer_has_errors, reported, tokens, unrecognized, lex_pc>>
    /\ UNCHANGED <<peephole_vars, symtab_vars, types_vars, indexation_vars, optimizer_vars, errors_vars, block_vars, parse_vars, range_vars, compile_vars>>

\* t_newline (lines 262-266): \n+
t_newline ==
    /\ Lexing
    /\ CharAt(lexdata, lexpos) = Newline
    /\ LET end == RunEnd(lexdata, lexpos, {Newline})
           committed == commit_error(LexerSelf)
       IN /\ lexpos' = end
          /\ last_error' = committed.last_error
          /\ lexer_has_errors' = committed.has_errors
          /\ reported' = committed.reported
          /\ lineno' = lineno + (end - lexpos)
    /\ UNCHANGED <<lexdata, tokens, unrecognized, lex_pc>>
    /\ UNCHANGED <<peephole_vars, symtab_vars, types_vars, indexation_vars, optimizer_vars, errors_vars, block_vars, parse_vars, range_vars, compile_vars>>

\* line 277: the character at position continues the pending span
Continuation_Always(pending, position) == TRUE
Continuation(pending, position) == pending[1] + pending[2] = position

\* t_error (lines 273-284): no rule matches at lexpos and the character is
\* no literal
t_error ==
    /\ Lexing
    /\ CharAt(lexdata, lexpos) \in {Hash, LBrace, RBrace, Quote}
    /\ CommentEnd(lexdata, lexpos) = -1
    /\ StringEnd(lexdata, lexpos) = -1
    /\ IF last_error # <<>>
       THEN IF Continuation(last_error, lexpos)
            THEN /\ last_error' = <<last_error[1], last_error[2] + 1>>
                 /\ UNCHANGED <<lexer_has_errors, reported>>
            ELSE LET committed == commit_error(LexerSelf)
                 IN /\ last_error' = <<lexpos, 1>>
                    /\ lexer_has_errors' = committed.has_errors
                    /\ reported' = committed.reported
       ELSE /\ last_error' = <<lexpos, 1>>
            /\ UNCHANGED <<lexer_has_errors, reported>>
    /\ lexpos' = lexpos + 1
    /\ unrecognized' = unrecognized \cup {lexpos}
    /\ UNCHANGED <<lexdata, lineno, tokens, lex_pc>>
    /\ UNCHANGED <<peephole_vars, symtab_vars, types_vars, indexation_vars, optimizer_vars, errors_vars, block_vars, parse_vars, range_vars, compile_vars>>

\* t_eof (lines 268-271): t_newline on the empty match, then LexerError
t_eof ==
    /\ lex_pc = "lexing"
    /\ lexpos = Len(lexdata)
    /\ LET committed == commit_error(LexerSelf)
       IN /\ last_error' = committed.last_error
          /\ lexer_has_errors' = committed.has_errors
          /\ reported' = committed.reported
          /\ lex_pc' = IF committed.has_errors THEN "raised" ELSE "eof"
    /\ UNCHANGED <<lexdata, lexpos, lineno, tokens, unrecognized>>
    /\ UNCHANGED <<peephole_vars, symtab_vars, types_vars, indexation_vars, optimizer_vars, errors_vars, block_vars, parse_vars, range_vars, compile_vars>>

NextLexer ==
    \/ t_ignore
    \/ t_ID
    \/ t_STRING
    \/ t_ignore_COMMENT
    \/ t_newline
    \/ t_error
    \/ t_eof

\* the sources given to the lexer
Sources == UNION { [1..n -> Chars] : n \in 0..MaxSource }

(***************************************************************************)
(* ewvm.py: _EWVMCodeGenerator. A generator is the pair of self.program    *)
(* and the count of self.label_generator; every method takes the generator *)
(* and returns it with what the method appended.                           *)
(***************************************************************************)
\* the variables of the program's block, in the order of block.variables
\* (line 562 gives each its index as scope_offset); none is in a callable
BlockVariables ==
    <<[name |-> "a", variable_type |-> BuiltInType_BOOLEAN],
      [name |-> "b", variable_type |-> BuiltInType_BOOLEAN],
      [name |-> "x", variable_type |-> BuiltInType_INTEGER],
      [name |-> "y", variable_type |-> BuiltInType_INTEGER],
      [name |-> "r", variable_type |-> BuiltInType_REAL],
      [name |-> "c", variable_type |-> BuiltInType_CHAR],
      [name |-> "s", variable_type |-> BuiltInType_STRING],
      [name |-> "t", variable_type |->
          ArrayType(BuiltInType_STRING,
                    <<RangeType(ConstantValue("int", 1), ConstantValue("int", 2),
                                BuiltInType_INTEGER)>>)],
      [name |-> "e", variable_type |-> EnumeratedType(0)]>>

\* the names of the constants of the enumerated type of e, in order
EnumeratedNames == <<"red", "green">>

\* the callables of the program's block: the number of parameters, whether
\* there is a return_variable, and the number of body.variables
BlockCallables ==
    <<[name |-> "p", parameters |-> 0, is_function |-> FALSE, variables |-> 1],
      [name |-> "f", parameters |-> 1, is_function |-> TRUE, variables |-> 0]>>

CallableIndex(name) == CHOOSE k \in 1..Len(BlockCallables) : BlockCallables[k].name = name

BuiltInCallables == {"write", "writeln", "read", "readln", "length"}

scope_offset(name) == (CHOOSE k \in 1..Len(BlockVariables) : BlockVariables[k].name = name) - 1
variable_type_of(name) == BlockVariables[scope_offset(name) + 1].variable_type

\* VariableUsage(variable, type, indices): the indices are kept in args
IndexedVariableUsage(name, index_list, type) ==
    [node |-> "VariableUsage", operator |-> "", value |-> <<"variable", name>>,
     args |-> index_list, type |-> type]

\* CallableCall(callable, arguments) used as an expression or a statement
CallableCall(name, arguments, type) ==
    [node |-> "CallableCall", operator |-> name, value |-> <<>>, args |-> arguments,
     type |-> type]

NewGenerator == [program |-> <<>>, count |-> 0, raised |-> ""]

Emit(g, item) == [g EXCEPT !.program = Append(@, item)]

\* The arguments of an EWVMStatement are written as integers: a string as
\* its index in Strings, a label as the count it was made with.
Strings ==
    <<"", "a", "b", "c", "ab", "True", "False", "More than one character written",
      "Case expression did not match", "red", "green">>

StringIndex(s) == CHOOSE k \in 1..Len(Strings) : Strings[k] = s

\* Label.system(None, count) (lines 45-50): SYS<count>
SystemLabelNames == <<"SYS1", "SYS2", "SYS3", "SYS4", "SYS5", "SYS6", "SYS7", "SYS8">>
SystemLabel(count) == Label(SystemLabelNames[count])

\* LabelGenerator.new (lines 118-120)
NewLabel(g) == [g EXCEPT !.count = @ + 1]

\* the argument of PUSHF: a float that is a whole number is written as it
FloatArgument(q) == IF q[2] = 1 THEN q[1] ELSE q

\* ord() of the characters programs are written with
CharCode(c) == CASE c = "a" -> 97 [] c = "b" -> 98 [] c = "c" -> 99

\* generate_constant_assembly (lines 131-142)
generate_constant_assembly(g, constant) ==
    CASE constant[1] = "bool" ->
            Emit(g, EWVMStatement("PUSHI", <<IF constant[2] THEN 1 ELSE 0>>))
      [] constant[1] = "int" -> Emit(g, EWVMStatement("PUSHI", <<constant[2]>>))
      [] constant[1] = "float" ->
            Emit(g, EWVMStatement("PUSHF", <<FloatArgument(constant[2])>>))
      [] constant[1] = "str" ->
            IF Len(constant[2]) = 1
            THEN Emit(g, EWVMStatement("PUSHI", <<CharCode(constant[2])>>))
            ELSE Emit(g, EWVMStatement("PUSHS", <<StringIndex(constant[2])>>))
      [] constant[1] = "enum" -> Emit(g, EWVMStatement("PUSHI", <<constant[3]>>))

IsBuiltIn(type, builtin) == type.tag = "BuiltInType" /\ type.value = builtin.value

\* lines 206-210: the product of the sizes of the dimensions after the first
RECURSIVE ElementSize(_, _)
ElementSize(dimensions, k) ==
    IF k > Len(dimensions) THEN 1
    ELSE (get_constant_ordinal_value(dimensions[k].end).value
            - get_constant_ordinal_value(dimensions[k].start).value + 1)
         * ElementSize(dimensions, k + 1)

RECURSIVE generate_expression_assembly(_, _)
RECURSIVE generate_callable_call_assembly(_, _)

\* lines 215-217: the offset is multiplied by the size of an element
Scaled(g, element_size) ==
    IF element_size # 1
    THEN Emit(Emit(g, EWVMStatement("PUSHI", <<element_size>>)), EWVMStatement("MUL", <<>>))
    ELSE g

\* lines 199-224: the loop over usage.indices, from the k-th index on;
\* it breaks at the first index of a value that is no array
RECURSIVE IndicesLoop(_, _, _, _)
IndicesLoop(g, usage, k, current) ==
    IF k > Len(usage.args) \/ current.tag # "ArrayType"
    THEN [g |-> g, current_type |-> current, array_end_i |-> k - 1]
    ELSE LET index == usage.args[k]
             g1 == generate_expression_assembly(g, index)
             g2 == Emit(g1, EWVMStatement("PUSHI",
                        <<get_constant_ordinal_value(current.dimensions[1].start).value>>))
             g3 == Emit(g2, EWVMStatement("SUB", <<>>))
             g4 == Scaled(g3, ElementSize(current.dimensions, 2))
             g5 == Emit(g4, EWVMStatement("PADD", <<>>))
         IN IndicesLoop(g5, usage, k + 1, type_after_indexation(current, index.type).type)

\* lines 229-241: after the loop, the element is loaded or stored and a
\* STRING that is indexed is read with CHARAT
AfterIndices(looped, usage, read_write) ==
    LET g2 == IF looped.array_end_i # 0
              THEN IF read_write
                   THEN Emit(Emit(looped.g, EWVMStatement("SWAP", <<>>)),
                             EWVMStatement("STORE", <<0>>))
                   ELSE Emit(looped.g, EWVMStatement("LOAD", <<0>>))
              ELSE looped.g
    IN IF IsBuiltIn(looped.current_type, BuiltInType_STRING)
            /\ looped.array_end_i # Len(usage.args)
       THEN Emit(Emit(Emit(generate_expression_assembly(g2, usage.args[Len(usage.args)]),
                           EWVMStatement("PUSHI", <<1>>)),
                      EWVMStatement("SUB", <<>>)),
                 EWVMStatement("CHARAT", <<>>))
       ELSE g2

\* generate_variable_usage_assembly (lines 190-241)
generate_variable_usage_assembly(g, usage, read_write) ==
    LET name == usage.value[2]
        instruction == IF read_write /\ Len(usage.args) = 0 THEN "STOREG" ELSE "PUSHG"
        g1 == Emit(g, EWVMStatement(instruction, <<scope_offset(name)>>))
    IN AfterIndices(IndicesLoop(g1, usage, 1, variable_type_of(name)), usage, read_write)

\* lines 278-297: the instruction of a binary operation; no branch assigns
\* one for 'in'
BinaryInstruction(e) ==
    LET any_real == \/ IsBuiltIn(e.args[1].type, BuiltInType_REAL)
                    \/ IsBuiltIn(e.args[2].type, BuiltInType_REAL)
        real == IsBuiltIn(e.type, BuiltInType_REAL)
    IN CASE e.operator = "+" -> IF real THEN "FADD" ELSE "ADD"
         [] e.operator = "-" -> IF real THEN "FSUB" ELSE "SUB"
         [] e.operator = "*" -> IF real THEN "FMUL" ELSE "MUL"
         [] e.operator = "/" -> "FDIV"
         [] e.operator = "div" -> "DIV"
         [] e.operator = "mod" -> "MOD"
         [] e.operator = "and" -> "AND"
         [] e.operator = "or" -> "OR"
         [] e.operator \in {"=", "<>"} -> "EQUAL"
         [] e.operator = "<" -> IF any_real THEN "FINF" ELSE "INF"
         [] e.operator = ">" -> IF any_real THEN "FSUB" ELSE "SUP"
         [] e.operator = "<=" -> IF any_real THEN "FINFEQ" ELSE "INFEQ"
         [] e.operator = ">=" -> IF any_real THEN "FSUPEQ" ELSE "SUPEQ"
         [] OTHER -> "UnboundLocalError"

\* lines 299-303: the instruction is appended, and NOT after it for '<>'
EmitBinary(g, e, instruction) ==
    IF instruction = "UnboundLocalError"
    THEN [g EXCEPT !.raised = "UnboundLocalError"]
    ELSE IF e.operator = "<>"
    THEN Emit(Emit(g, EWVMStatement(instruction, <<>>)), EWVMStatement("NOT", <<>>))
    ELSE Emit(g, EWVMStatement(instruction, <<>>))

\* generate_expression_assembly (lines 243-303)
generate_expression_assembly(g, e) ==
    CASE e.node = "Constant" ->
            IF e.value[1] = "str" /\ Len(e.value[2]) = 1 /\ IsBuiltIn(e.type, BuiltInType_STRING)
            THEN Emit(g, EWVMStatement("PUSHS", <<StringIndex(e.value[2])>>))
            ELSE generate_constant_assembly(g, e.value)
      [] e.node = "VariableUsage" -> generate_variable_usage_assembly(g, e, FALSE)
      [] e.node = "CallableCall" -> generate_callable_call_assembly(g, e)
      [] e.node = "UnaryOperation" ->
            LET sub == e.args[1]
                real == IsBuiltIn(sub.type, BuiltInType_REAL)
            IN IF e.operator = "-"
               THEN Emit(generate_expression_assembly(
                            Emit(g, IF real THEN EWVMStatement("PUSHF", <<0>>)
                                            ELSE EWVMStatement("PUSHI", <<0>>)),
                            sub),
                         EWVMStatement(IF real THEN "FSUB" ELSE "SUB", <<>>))
               ELSE IF e.operator = "not"
               THEN Emit(generate_expression_assembly(g, sub), EWVMStatement("NOT", <<>>))
               ELSE g
      [] e.node = "BinaryOperation" ->
            LET g1 == generate_expression_assembly(g, e.args[1])
                g2 == generate_expression_assembly(g1, e.args[2])
            IN EmitBinary(g2, e, BinaryInstruction(e))

\* lines 310-314, 336-341: the strings a BOOLEAN or a value of an
\* enumerated type is printed as, and the address and index they are
\* selected with
BeforeWritten(g, type) ==
    LET Selecting(g0) == Emit(Emit(g0, EWVMStatement("PUSHSP", <<>>)),
                              EWVMStatement("PUSHI", <<0>>))
    IN CASE IsBuiltIn(type, BuiltInType_BOOLEAN) ->
               Selecting(generate_constant_assembly(
                            generate_constant_assembly(g, ConstantValue("str", "True")),
                            ConstantValue("str", "False")))
         [] type.tag = "EnumeratedType" ->
               Selecting(generate_constant_assembly(
                            generate_constant_assembly(
                                g, ConstantValue("str", EnumeratedNames[2])),
                            ConstantValue("str", EnumeratedNames[1])))
         [] OTHER -> g

\* lines 316-345: the instructions after the code of the argument
AfterWritten(g, type) ==
    CASE IsBuiltIn(type, BuiltInType_BOOLEAN) \/ type.tag = "EnumeratedType" ->
            Emit(Emit(Emit(g, EWVMStatement("SUB", <<>>)), EWVMStatement("LOADN", <<>>)),
                 EWVMStatement("WRITES", <<>>))
      [] IsBuiltIn(type, BuiltInType_INTEGER) -> Emit(g, EWVMStatement("WRITEI", <<>>))
      [] IsBuiltIn(type, BuiltInType_REAL) -> Emit(g, EWVMStatement("WRITEF", <<>>))
      [] IsBuiltIn(type, BuiltInType_CHAR) -> Emit(g, EWVMStatement("WRITECHR", <<>>))
      [] IsBuiltIn(type, BuiltInType_STRING) -> Emit(g, EWVMStatement("WRITES", <<>>))

\* lines 308-345: the loop over the arguments of write and writeln; no
\* branch is taken for an argument of another type
RECURSIVE WriteLoop(_, _, _)
WriteLoop(g, arguments, k) ==
    IF k > Len(arguments) THEN g
    ELSE WriteLoop(
            IF arguments[k].type.tag = "ArrayType" THEN g
            ELSE AfterWritten(
                    generate_expression_assembly(BeforeWritten(g, arguments[k].type),
                                                 arguments[k]),
                    arguments[k].type),
            arguments, k + 1)

\* lines 357-383: the loop over the arguments of read and readln
RECURSIVE ReadLoop(_, _, _)
ReadLoop(g, arguments, k) ==
    IF k > Len(arguments) \/ g.raised # "" THEN g
    ELSE LET argument == arguments[k]
             g1 == Emit(g, EWVMStatement("READ", <<>>))
             labelled == NewLabel(g1)
             g2 == CASE \/ IsBuiltIn(argument.type, BuiltInType_INTEGER)
                        \/ IsBuiltIn(argument.type, BuiltInType_BOOLEAN)
                        \/ argument.type.tag = "EnumeratedType" ->
                            Emit(g1, EWVMStatement("ATOI", <<>>))
                     [] IsBuiltIn(argument.type, BuiltInType_REAL) ->
                            Emit(g1, EWVMStatement("ATOF", <<>>))
                     [] IsBuiltIn(argument.type, BuiltInType_CHAR) ->
                            Emit(Emit(Emit(Emit(Emit(Emit(Emit(Emit(Emit(Emit(labelled,
                                EWVMStatement("DUP", <<2>>)),
                                EWVMStatement("STRLEN", <<>>)),
                                EWVMStatement("PUSHI", <<1>>)),
                                EWVMStatement("EQUAL", <<>>)),
                                EWVMStatement("NOT", <<>>)),
                                EWVMStatement("JZ", <<labelled.count>>)),
                                EWVMStatement("ERR",
                                    <<StringIndex("More than one character written")>>)),
                                SystemLabel(labelled.count)),
                                EWVMStatement("PUSHI", <<0>>)),
                                EWVMStatement("CHARAT", <<>>))
                     [] OTHER -> g1
         IN IF argument.node # "VariableUsage"
            THEN [g2 EXCEPT !.raised = "AssertionError"]
            ELSE ReadLoop(generate_variable_usage_assembly(g2, argument, TRUE),
                          arguments, k + 1)

\* lines 347-348, 382-383: WRITELN after the arguments of writeln and readln
EndOfLine(g, line) ==
    IF line /\ g.raised = "" THEN Emit(g, EWVMStatement("WRITELN", <<>>)) ELSE g

\* generate_builtin_callable_assembly (lines 305-387)
generate_builtin_callable_assembly(g, call) ==
    CASE call.operator \in {"write", "writeln"} ->
            EndOfLine(WriteLoop(g, call.args, 1), call.operator = "writeln")
      [] call.operator \in {"read", "readln"} ->
            EndOfLine(ReadLoop(g, call.args, 1), call.operator = "readln")
      [] call.operator = "length" ->
            Emit(generate_expression_assembly(g, call.args[1]), EWVMStatement("STRLEN", <<>>))

\* lines 400-401: the arguments are pushed in order
RECURSIVE ArgumentsLoop(_, _, _)
ArgumentsLoop(g, arguments, k) ==
    IF k > Len(arguments) THEN g
    ELSE ArgumentsLoop(generate_expression_assembly(g, arguments[k]), arguments, k + 1)

\* lines 405-407: the variables of the callee and the arguments are popped
PopCalled(g, total_pops) ==
    IF total_pops > 0 THEN Emit(g, EWVMStatement("POP", <<total_pops>>)) ELSE g

\* generate_callable_call_assembly (lines 389-407); the return_variable of
\* the function of the block is an INTEGER
generate_callable_call_assembly(g, call) ==
    IF call.operator \in BuiltInCallables
    THEN generate_builtin_callable_assembly(g, call)
    ELSE LET callable == BlockCallables[CallableIndex(call.operator)]
             g1 == IF callable.is_function
                   THEN generate_constant_assembly(g, ConstantValue("int", 0))
                   ELSE g
             g2 == ArgumentsLoop(g1, call.args, 1)
             g3 == Emit(Emit(g2, EWVMStatement("PUSHA", <<CallableIndex(call.operator)>>)),
                        EWVMStatement("CALL", <<>>))
         IN PopCalled(g3, callable.variables + Len(call.args))

\* the statements, each without a label: what the parser hands over as
\* (statement, None)
AssignStatement(left, right) == <<"AssignStatement", left, right>>
CallStatement(call) == <<"CallableCall", call>>
BeginEndStatement(statements) == <<"BeginEndStatement", statements>>
IfStatement(condition, when_true, when_false) ==
    <<"IfStatement", condition, when_true, when_false>>
RepeatStatement(body, condition) == <<"RepeatStatement", body, condition>>
WhileStatement(condition, body) == <<"WhileStatement", condition, body>>
ForStatement(variable, initial_expression, final_expression, direction, body) ==
    <<"ForStatement", variable, initial_expression, final_expression, direction, body>>
CaseElement(labels, body) == <<labels, body>>
CaseStatement(e, elements) == <<"CaseStatement", e, elements>>

RECURSIVE generate_statement_assembly(_, _)

\* lines 431-433: the statements of a BeginEndStatement, in order
RECURSIVE StatementsLoop(_, _, _)
StatementsLoop(g, statements, k) ==
    IF k > Len(statements) \/ g.raised # "" THEN g
    ELSE StatementsLoop(generate_statement_assembly(g, statements[k]), statements, k + 1)

\* lines 523-528: the comparisons with the labels of one case element
RECURSIVE CaseLabelsLoop(_, _, _)
CaseLabelsLoop(g, labels, k) ==
    IF k > Len(labels) THEN g
    ELSE CaseLabelsLoop(
            Emit(Emit(generate_constant_assembly(
                        Emit(Emit(g, EWVMStatement("PUSHSP", <<>>)),
                             EWVMStatement("LOAD", <<-1>>)),
                        labels[k]),
                      EWVMStatement("EQUAL", <<>>)),
                 EWVMStatement("OR", <<>>)),
            labels, k + 1)

\* lines 518-536: the elements of a case statement
RECURSIVE CaseElementsLoop(_, _, _, _)
CaseElementsLoop(g, elements, k, end_label) ==
    IF k > Len(elements) \/ g.raised # "" THEN g
    ELSE LET g1 == NewLabel(Emit(g, EWVMStatement("PUSHI", <<0>>)))
             element_end_label == g1.count
             g2 == CaseLabelsLoop(g1, elements[k][1], 1)
             g3 == Emit(Emit(g2, EWVMStatement("JZ", <<element_end_label>>)),
                        EWVMStatement("POP", <<1>>))
             g4 == generate_statement_assembly(g3, elements[k][2])
             g5 == Emit(Emit(g4, EWVMStatement("JUMP", <<end_label>>)),
                        SystemLabel(element_end_label))
         IN CaseElementsLoop(g5, elements, k + 1, end_label)

\* line 418: the value of the right-hand side is stored
Stored(g, left) ==
    IF g.raised # "" THEN g ELSE generate_variable_usage_assembly(g, left, TRUE)

\* lines 516-540: the elements of a case statement between the label that
\* ends it, which is the last one made, and the error of no match
CaseElements(g, elements) ==
    Emit(Emit(Emit(CaseElementsLoop(g, elements, 1, g.count),
                   EWVMStatement("POP", <<1>>)),
              EWVMStatement("ERR", <<StringIndex("Case expression did not match")>>)),
         SystemLabel(g.count))

\* generate_statement_assembly (lines 409-540) of a statement without label
generate_statement_assembly(g, statement) ==
    CASE statement[1] = "AssignStatement" ->
            Stored(generate_expression_assembly(Emit(g, Comment("assignment")), statement[3]),
                   statement[2])
      [] statement[1] = "CallableCall" ->
            generate_callable_call_assembly(Emit(g, Comment("call")), statement[2])
      [] statement[1] = "BeginEndStatement" -> StatementsLoop(g, statement[2], 1)
      [] statement[1] = "IfStatement" ->
            LET else_label == g.count + 1
                end_label == g.count + 2
                g1 == Emit([g EXCEPT !.count = @ + 2], Comment("IF"))
                g2 == Emit(generate_expression_assembly(g1, statement[2]),
                           EWVMStatement("JZ", <<else_label>>))
                g3 == Emit(Emit(generate_statement_assembly(g2, statement[3]),
                                EWVMStatement("JUMP", <<end_label>>)),
                           SystemLabel(else_label))
            IN Emit(generate_statement_assembly(g3, statement[4]), SystemLabel(end_label))
      [] statement[1] = "RepeatStatement" ->
            LET start_label == g.count + 1
                g1 == Emit(Emit(NewLabel(g), Comment("REPEAT")), SystemLabel(start_label))
                g2 == generate_statement_assembly(g1, BeginEndStatement(statement[2]))
            IN Emit(generate_expression_assembly(g2, statement[3]),
                    EWVMStatement("JZ", <<start_label>>))
      [] statement[1] = "WhileStatement" ->
            LET start_label == g.count + 1
                end_label == g.count + 2
                g1 == Emit(Emit([g EXCEPT !.count = @ + 2], Comment("WHILE")),
                           SystemLabel(start_label))
                g2 == Emit(generate_expression_assembly(g1, statement[2]),
                           EWVMStatement("JZ", <<end_label>>))
                g3 == generate_statement_assembly(g2, statement[3])
            IN Emit(Emit(g3, EWVMStatement("JUMP", <<start_label>>)), SystemLabel(end_label))
      [] statement[1] = "ForStatement" ->
            LET start_label == g.count + 1
                end_label == g.count + 2
                to == statement[5] = "to"
                g1 == Emit([g EXCEPT !.count = @ + 2], Comment("FOR"))
                g2 == generate_expression_assembly(
                          generate_expression_assembly(g1, statement[4]), statement[3])
                g3 == Emit(Emit(g2, SystemLabel(start_label)), EWVMStatement("DUP", <<1>>))
                g4 == generate_variable_usage_assembly(
                          g3, VariableUsage(statement[2], variable_type_of(statement[2])), TRUE)
                g5 == Emit(Emit(Emit(g4, EWVMStatement("COPY", <<2>>)),
                                EWVMStatement(IF to THEN "SUPEQ" ELSE "INFEQ", <<>>)),
                           EWVMStatement("JZ", <<end_label>>))
                g6 == generate_statement_assembly(g5, statement[6])
                g7 == Emit(Emit(Emit(g6, EWVMStatement("PUSHI", <<1>>)),
                                EWVMStatement(IF to THEN "ADD" ELSE "SUB", <<>>)),
                           EWVMStatement("JUMP", <<start_label>>))
            IN Emit(Emit(Emit(g7, EWVMStatement("JZ", <<start_label>>)),
                         SystemLabel(end_label)),
                    EWVMStatement("POP", <<2>>))
      [] statement[1] = "CaseStatement" ->
            CaseElements(NewLabel(generate_expression_assembly(Emit(g, Comment("CASE")),
                                                               statement[2])),
                         statement[3])

\* generate_variable_creation_assembly (lines 144-188); arrays have one
\* dimension here, so the product of lines 150-154 has one factor
RECURSIVE generate_variable_creation_assembly(_, _, _)
generate_variable_creation_assembly(g, type, offset) ==
    IF type.tag = "ArrayType"
    THEN LET array_size == ElementSize(type.dimensions, 1)
             g1 == NewLabel(Emit(g, EWVMStatement("ALLOC", <<array_size>>)))
             label == g1.count
             g2 == Emit(Emit(Emit(Emit(g1, EWVMStatement("PUSHI", <<0>>)),
                                  SystemLabel(label)),
                             EWVMStatement("PUSHL", <<offset>>)),
                        EWVMStatement("PUSHL", <<offset + 1>>))
             g3 == generate_variable_creation_assembly(g2, type.subtype, offset)
         IN Emit(Emit(Emit(Emit(Emit(Emit(Emit(Emit(g3,
                EWVMStatement("STOREN", <<>>)),
                EWVMStatement("PUSHI", <<1>>)),
                EWVMStatement("ADD", <<>>)),
                EWVMStatement("DUP", <<1>>)),
                EWVMStatement("PUSHI", <<array_size>>)),
                EWVMStatement("SUPEQ", <<>>)),
                EWVMStatement("JZ", <<label>>)),
                EWVMStatement("POP", <<1>>))
    ELSE generate_constant_assembly(g,
            CASE IsBuiltIn(type, BuiltInType_REAL) -> ConstantValue("float", Fraction(0, 1))
              [] IsBuiltIn(type, BuiltInType_STRING) -> ConstantValue("str", "")
              [] OTHER -> ConstantValue("int", 0))

\* lines 559-569: the variables of the block are initialized in order
RECURSIVE VariablesLoop(_, _, _)
VariablesLoop(g, variables, k) ==
    IF k > Len(variables) THEN g
    ELSE VariablesLoop(
            generate_variable_creation_assembly(Emit(g, Comment("initialization")),
                                                variables[k].variable_type, k - 1),
            variables, k + 1)

\* lines 574-580: POPST for each array of the block, last variable first
RECURSIVE FinalizationLoop(_, _, _)
FinalizationLoop(g, variables, k) ==
    IF k < 1 THEN g
    ELSE FinalizationLoop(
            IF variables[k].variable_type.tag = "ArrayType"
            THEN Emit(Emit(g, Comment("finalization")), EWVMStatement("POPST", <<>>))
            ELSE g,
            variables, k - 1)

\* a Program: the variables of its block and the statement between BEGIN
\* and END
Program(variables, body) == [variables |-> variables, body |-> body]

\* lines 574-584: the arrays are released and the program stops
EndOfBlock(g, variables) ==
    IF g.raised # "" THEN g
    ELSE Emit(FinalizationLoop(g, variables, Len(variables)), EWVMStatement("STOP", <<>>))

\* generate_block_assembly (lines 542-587) for the block of the program
generate_block_assembly(g, block_of_program) ==
    LET g1 == Emit(g, EWVMStatement("START", <<>>))
        g2 == VariablesLoop([g1 EXCEPT !.count = 0], block_of_program.variables, 1)
    IN EndOfBlock(generate_statement_assembly(g2, block_of_program.body),
                  block_of_program.variables)

\* generate_ewvm_code (lines 589-602); the blocks of the callables follow
\* the STOP of the program and are left out
generate_ewvm_code(ast) == generate_block_assembly(NewGenerator, ast)

\* remove_ewvm_comments (lines 112-113)
remove_ewvm_comments(assembly) == SelectSeq(assembly, LAMBDA item : item.kind # "Comment")

\* optimizer.py, __replace_expressions (lines 26-52) with the replacer of
\* optimize_ast (lines 150-155): every outermost operation is replaced
RECURSIVE replace_expressions(_)
replace_expressions(e) ==
    IF e.node \in {"UnaryOperation", "BinaryOperation"}
    THEN simplify_expression(constant_fold_expression(e))
    ELSE IF e.node \in {"VariableUsage", "CallableCall"}
    THEN [e EXCEPT !.args = [k \in 1..Len(e.args) |-> replace_expressions(e.args[k])]]
    ELSE e

RECURSIVE optimize_statement(_)
optimize_statement(statement) ==
    CASE statement[1] = "AssignStatement" ->
            AssignStatement(replace_expressions(statement[2]), replace_expressions(statement[3]))
      [] statement[1] = "CallableCall" -> CallStatement(replace_expressions(statement[2]))
      [] statement[1] = "BeginEndStatement" ->
            BeginEndStatement([k \in 1..Len(statement[2]) |-> optimize_statement(statement[2][k])])
      [] statement[1] = "IfStatement" ->
            IfStatement(replace_expressions(statement[2]), optimize_statement(statement[3]),
                        optimize_statement(statement[4]))
      [] statement[1] = "RepeatStatement" ->
            RepeatStatement([k \in 1..Len(statement[2]) |-> optimize_statement(statement[2][k])],
                            replace_expressions(statement[3]))
      [] statement[1] = "WhileStatement" ->
            WhileStatement(replace_expressions(statement[2]), optimize_statement(statement[3]))
      [] statement[1] = "ForStatement" ->
            ForStatement(statement[2], replace_expressions(statement[3]),
                         replace_expressions(statement[4]), statement[5],
                         optimize_statement(statement[6]))
      [] statement[1] = "CaseStatement" ->
            CaseStatement(replace_expressions(statement[2]),
                          [k \in 1..Len(statement[3]) |->
                              CaseElement(statement[3][k][1],
                                          optimize_statement(statement[3][k][2]))])

\* optimize_ast (optimizer.py lines 150-155) on a Program
optimize_ast(ast) == [ast EXCEPT !.body = optimize_statement(@)]

\* line 61: the peephole optimizer runs with -O
Optimized(assembly, O) == IF O THEN apply_ewvm_peephole_optimizations(assembly) ELSE assembly

\* lines 57-61: the comments are removed without -g, before the optimizer
Assembled(generated, O, debug) ==
    [raised |-> generated.raised,
     assembly |-> IF generated.raised # "" THEN <<>>
                  ELSE Optimized(IF ~debug THEN remove_ewvm_comments(generated.program)
                                           ELSE generated.program, O)]

\* main (__main__.py lines 49-63), from the result of parser.parse on: the
\* assembly that is exported, or the exception that leaves the generator
main(ast, O, debug) ==
    Assembled(generate_ewvm_code(IF O THEN optimize_ast(ast) ELSE ast), O, debug)

(***************************************************************************)
(* The operand stack of the EWVM over a generated list: what each          *)
(* instruction pops and pushes, and the heights the stack can have at each *)
(* position of the list when it is entered at its first item with height 0.*)
(***************************************************************************)
PushOne == {"PUSHI", "PUSHF", "PUSHS", "PUSHG", "PUSHL", "PUSHSP", "PUSHA", "READ", "ALLOC"}
PopOne ==
    {"ADD", "SUB", "MUL", "DIV", "MOD", "FADD", "FSUB", "FMUL", "FDIV", "AND", "OR",
     "EQUAL", "INF", "SUP", "INFEQ", "SUPEQ", "FINF", "FSUP", "FINFEQ", "FSUPEQ",
     "PADD", "LOADN", "CHARAT", "JZ", "WRITEI", "WRITEF", "WRITES", "WRITECHR",
     "STOREL", "STOREG"}

\* the change of the height of the stack by the item at index idx; a CALL
\* pops the address and returns with the variables of the callee's block on
\* the stack (generate_callable_call_assembly pops them, lines 404-406)
StackEffect(prog, idx) ==
    LET item == At(prog, idx)
    IN IF item.kind # "EWVMStatement" THEN 0
       ELSE CASE item.instruction \in PushOne -> 1
              [] item.instruction \in PopOne -> -1
              [] item.instruction \in {"PUSHN", "DUP", "COPY"} -> item.arguments[1]
              [] item.instruction = "POP" -> -item.arguments[1]
              [] item.instruction = "STORE" -> -2
              [] item.instruction = "STOREN" -> -3
              [] item.instruction = "CALL" ->
                    BlockCallables[At(prog, idx - 1).arguments[1]].variables - 1
              [] OTHER -> 0

\* the index of the label a jump names
LabelIndex(prog, count) ==
    CHOOSE idx \in 0..(Len(prog) - 1) :
        At(prog, idx).kind = "Label" /\ At(prog, idx).instruction = SystemLabelNames[count]

\* the positions control can pass to from the item at index idx
Successors(prog, idx) ==
    LET item == At(prog, idx)
    IN IF item.kind # "EWVMStatement" THEN {idx + 1}
       ELSE CASE item.instruction = "JUMP" -> {LabelIndex(prog, item.arguments[1])}
              [] item.instruction = "JZ" -> {idx + 1, LabelIndex(prog, item.arguments[1])}
              [] item.instruction \in {"ERR", "STOP"} -> {}
              [] OTHER -> {idx + 1}

\* the <<index, height>> pairs one step after those of frontier; heights
\* beyond MaxHeight are not followed
Step(prog, frontier) ==
    {q \in (0..Len(prog)) \X (-MaxHeight..MaxHeight) :
        \E pair \in frontier :
            /\ pair[1] < Len(prog)
            /\ q[1] \in Successors(prog, pair[1])
            /\ q[2] = pair[2] + StackEffect(prog, pair[1])}

RECURSIVE Reachable(_, _)
Reachable(prog, seen) ==
    LET next == seen \cup Step(prog, seen)
    IN IF next = seen THEN seen ELSE Reachable(prog, next)

\* the heights the stack can have when control falls off the end of the list
ExitHeights(prog) == {pair[2] : pair \in {q \in Reachable(prog, {<<0, 0>>}) : q[1] = Len(prog)}}

(***************************************************************************)
(* parser.py: the productions that reduce an assignment and a call, then   *)
(* parse() and main (__main__.py) on what they produced.                   *)
(***************************************************************************)
\* TypeChecker.fail_on_string_indexation (typechecker.py lines 182-194): some
\* index is applied to a STRING
RECURSIVE fail_on_string_indexation(_, _, _)
fail_on_string_indexation(usage, k, current) ==
    IF k > Len(usage.args) THEN FALSE
    ELSE IF current = BuiltInType_STRING THEN TRUE
    ELSE LET after == type_after_indexation(current, usage.args[k].type)
         IN IF after.raised # "" THEN TRUE
            ELSE fail_on_string_indexation(usage, k + 1, after.type)

TypeMismatch == "Assignment is impossible due to type mismatch"

\* line 1250: the test that decides the promotion of the right-hand side
PromotesToString(left, right) ==
    variable_type_of(left.value[2]) = BuiltInType_STRING /\ right.type = BuiltInType_CHAR

\* p_unlabeled_statement_assign (parser.py lines 1243-1267) for p[1] and
\* p[3] that are not None
unlabeled_statement_assign(parser, left, right0) ==
    LET right == IF PromotesToString(left, right0)
                 THEN [right0 EXCEPT !.type = BuiltInType_STRING]
                 ELSE right0
        checked == IF ~can_assign(left.type, right.type)
                   THEN print_error(parser, TypeMismatch, 0, FALSE)
                   ELSE parser
        indexed == IF fail_on_string_indexation(left, 1, variable_type_of(left.value[2]))
                   THEN Except(Printed(checked, TypeCheckerMessage, "error"))
                   ELSE checked
    IN [parser |-> indexed, p0 |-> AssignStatement(left, right)]

\* definition.parameters of the callables that have parameters: the types
CallableParameters(name) ==
    CASE name = "length" -> <<BuiltInType_STRING>>
      [] name = "p" -> <<>>
      [] name = "f" -> <<BuiltInType_INTEGER>>

WrongNumber == "Wrong number of arguments"
ArgumentMismatch == "Type mismatch in argument"
MustBeOrdinal == "Type mismatch in argument: must be ordinal type"
MustBeVariable == "Type mismatch in argument: must be an ordinal variable"

\* lines 875-887: zip(definition.parameters, p[2][1])
RECURSIVE ParametersLoop(_, _, _, _)
ParametersLoop(r, parameters, arguments, k) ==
    IF k > Len(parameters) \/ k > Len(arguments) THEN r
    ELSE IF ~can_assign(parameters[k], arguments[k].type)
    THEN ParametersLoop([r EXCEPT !.parser = print_error(@, ArgumentMismatch, 0, FALSE)],
                        parameters, arguments, k + 1)
    ELSE IF parameters[k] = BuiltInType_STRING /\ arguments[k].type = BuiltInType_CHAR
    THEN ParametersLoop([r EXCEPT !.arguments[k].type = BuiltInType_STRING],
                        parameters, arguments, k + 1)
    ELSE ParametersLoop(r, parameters, arguments, k + 1)

\* lines 888-896 and 898-910: one error for each argument the test refuses
RECURSIVE RefusedLoop(_, _, _, _, _)
RefusedLoop(parser, arguments, k, Refused(_), message) ==
    IF k > Len(arguments) THEN parser
    ELSE RefusedLoop(IF Refused(arguments[k]) THEN print_error(parser, message, 0, FALSE)
                     ELSE parser,
                     arguments, k + 1, Refused, message)

\* line 897: the name the test on the arguments of a read is made for
ChecksVariables(name) == name = "readln"

\* p_callable_call (parser.py lines 846-913) once query_callable has
\* returned the definition: the checks of the arguments
callable_call_arguments(parser, call) ==
    IF call.operator \in {"length", "p", "f"}
    THEN LET parameters == CallableParameters(call.operator)
             counted == IF Len(parameters) # Len(call.args)
                        THEN print_error(parser, WrongNumber, 0, FALSE)
                        ELSE parser
             r == ParametersLoop([parser |-> counted, arguments |-> call.args],
                                 parameters, call.args, 1)
         IN [parser |-> r.parser, p0 |-> [call EXCEPT !.args = r.arguments]]
    ELSE IF call.operator \in {"writeln", "write"}
    THEN [parser |-> RefusedLoop(parser, call.args, 1,
                                 LAMBDA parameter : parameter.type.tag = "ArrayType",
                                 MustBeOrdinal),
          p0 |-> call]
    ELSE IF ChecksVariables(call.operator)
    THEN [parser |-> RefusedLoop(parser, call.args, 1,
                                 LAMBDA parameter : \/ parameter.node # "VariableUsage"
                                                    \/ parameter.type.tag = "ArrayType",
                                 MustBeVariable),
          p0 |-> call]
    ELSE [parser |-> parser, p0 |-> call]

\* the statement of a compiler that has been given none
NoStatement == BeginEndStatement(<<>>)

\* the constants and the variable usages expressions are written with
GenConstants ==
    {PyBool(TRUE), ConstantValue("int", 0), ConstantValue("int", 2),
     ConstantValue("float", Fraction(2, 1)), ConstantValue("str", "a"),
     ConstantValue("str", "ab")}

One == Constant(ConstantValue("int", 1), BuiltInType_INTEGER)

GenVariables ==
    {VariableUsage(BlockVariables[k].name, BlockVariables[k].variable_type) :
        k \in {1, 3, 5, 6, 7, 9}}
    \cup {IndexedVariableUsage("t", <<One>>, BuiltInType_STRING),
          IndexedVariableUsage("s", <<One>>, BuiltInType_CHAR)}

GenLeaves == {Constant(c, get_constant_type(c)) : c \in GenConstants} \cup GenVariables

\* a division by the constant zero, which the optimizer does not survive
DividesByZero(e) ==
    /\ e.operator \in {"/", "div", "mod"}
    /\ e.args[2].node = "Constant"
    /\ NumberOf(e.args[2].value)[1] = 0

\* the operations over two leaves and over one that the type checker accepts
GenOperations ==
    {e \in {ParsedUnaryOperation(operator, sub) :
                operator \in UnaryOperators, sub \in GenLeaves} : IsTyped(e)}
    \cup {e \in {ParsedBinaryOperation(operator, left, right) :
                    operator \in BinaryOperators, left \in GenLeaves, right \in GenLeaves} :
             IsTyped(e) /\ ~DividesByZero(e)}

GenCalls ==
    {CallableCall("length", <<VariableUsage("s", BuiltInType_STRING)>>, BuiltInType_INTEGER),
     CallableCall("f", <<VariableUsage("x", BuiltInType_INTEGER)>>, BuiltInType_INTEGER)}

GenExpressions == GenLeaves \cup GenOperations \cup GenCalls

\* the left-hand sides of assignments: the variables, the whole array t and
\* a character of an element of t
LeftSides ==
    GenVariables
    \cup {VariableUsage("t", variable_type_of("t")),
          IndexedVariableUsage("t", <<One, One>>, BuiltInType_CHAR)}

WholeArray == VariableUsage("t", variable_type_of("t"))

\* the argument lists of write, writeln, read and readln
ArgumentLists ==
    {<<argument>> : argument \in GenLeaves \cup {WholeArray}}
    \cup {<<ParsedBinaryOperation("+", VariableUsage("x", BuiltInType_INTEGER),
                                  Constant(ConstantValue("int", 2), BuiltInType_INTEGER))>>}
    \cup {<<first, second>> :
            first \in {VariableUsage("a", BuiltInType_BOOLEAN),
                       VariableUsage("c", BuiltInType_CHAR)},
            second \in {VariableUsage("x", BuiltInType_INTEGER),
                        Constant(ConstantValue("int", 2), BuiltInType_INTEGER)}}

NoType == BuiltInType(-1)

AssignStatements == {AssignStatement(left, right) : left \in LeftSides, right \in GenExpressions}

CallStatements ==
    {CallStatement(CallableCall(name, arguments, NoType)) :
        name \in {"write", "writeln", "read", "readln"}, arguments \in ArgumentLists}
    \cup {CallStatement(CallableCall("p", <<>>, NoType))}

\* the statements inside a structured statement, which their own
\* productions have accepted
Bodies ==
    {AssignStatement(VariableUsage("x", BuiltInType_INTEGER),
                     Constant(ConstantValue("int", 2), BuiltInType_INTEGER)),
     AssignStatement(VariableUsage("y", BuiltInType_INTEGER),
                     VariableUsage("x", BuiltInType_INTEGER)),
     CallStatement(CallableCall("writeln", <<VariableUsage("x", BuiltInType_INTEGER)>>, NoType)),
     BeginEndStatement(<<>>)}

Conditions ==
    {VariableUsage("a", BuiltInType_BOOLEAN),
     ParsedBinaryOperation("<", VariableUsage("x", BuiltInType_INTEGER),
                           Constant(ConstantValue("int", 2), BuiltInType_INTEGER))}

CaseElementLists ==
    {<<CaseElement(<<ConstantValue("int", 0)>>, body)>> : body \in Bodies}
    \cup {<<CaseElement(<<ConstantValue("int", 0), ConstantValue("int", 2)>>, first),
            CaseElement(<<ConstantValue("int", 1)>>, second)>> :
            first \in Bodies, second \in Bodies}

Structured ==
    {BeginEndStatement(<<first, second>>) : first \in Bodies, second \in Bodies}
    \cup {IfStatement(condition, when_true, when_false) :
            condition \in Conditions, when_true \in Bodies, when_false \in Bodies}
    \cup {RepeatStatement(<<body>>, condition) : body \in Bodies, condition \in Conditions}
    \cup {WhileStatement(condition, body) : condition \in Conditions, body \in Bodies}
    \cup {ForStatement("x", initial, Constant(ConstantValue("int", 2), BuiltInType_INTEGER),
                       direction, body) :
            initial \in {Constant(ConstantValue("int", 0), BuiltInType_INTEGER),
                         VariableUsage("y", BuiltInType_INTEGER)},
            direction \in {"to", "downto"}, body \in Bodies}
    \cup {CaseStatement(VariableUsage("x", BuiltInType_INTEGER), elements) :
            elements \in CaseElementLists}

OthersUnchangedByCompiler ==
    UNCHANGED <<peephole_vars, symtab_vars, types_vars, indexation_vars, optimizer_vars,
                block_vars, parse_vars, range_vars, lexer_vars>>

\* unlabeled-statement : variable-usage ASSIGN expression
p_unlabeled_statement_assign ==
    /\ compile_pc = "statement"
    /\ reduced[1] = "AssignStatement"
    /\ LET r == unlabeled_statement_assign(Self, reduced[2], reduced[3])
       IN /\ p0' = r.p0
          /\ has_errors' = r.parser.has_errors
          /\ diagnostics' = r.parser.diagnostics
    /\ compile_pc' = "reduced"
    /\ UNCHANGED <<reduced, flag_O, flag_g, exported>>
    /\ OthersUnchangedByCompiler

\* callable-call : ID callable-arguments, as a statement
p_callable_call_arguments ==
    /\ compile_pc = "statement"
    /\ reduced[1] = "CallableCall"
    /\ LET r == callable_call_arguments(Self, reduced[2])
       IN /\ p0' = CallStatement(r.p0)
          /\ has_errors' = r.parser.has_errors
          /\ diagnostics' = r.parser.diagnostics
    /\ compile_pc' = "reduced"
    /\ UNCHANGED <<reduced, flag_O, flag_g, exported>>
    /\ OthersUnchangedByCompiler

\* the productions of the structured statements keep what they are given
p_structured_statement ==
    /\ compile_pc = "statement"
    /\ reduced[1] \notin {"AssignStatement", "CallableCall"}
    /\ p0' = reduced
    /\ compile_pc' = "reduced"
    /\ UNCHANGED <<errors_vars, reduced, flag_O, flag_g, exported>>
    /\ OthersUnchangedByCompiler

\* parser.parse (parser.py, the wrapper of parse): ParserError when
\* has_errors is set
parse ==
    /\ compile_pc = "reduced"
    /\ compile_pc' = IF has_errors THEN "ParserError" ELSE "parsed"
    /\ UNCHANGED <<errors_vars, reduced, p0, flag_O, flag_g, exported>>
    /\ OthersUnchangedByCompiler

\* lines 63-69: the assembly is written, unless an exception ended main
Exports(r) ==
    /\ exported' = r.assembly
    /\ compile_pc' = IF r.raised # "" THEN "raised" ELSE "exported"

\* main (__main__.py lines 49-63)
export ==
    /\ compile_pc = "parsed"
    /\ Exports(main(Program(BlockVariables, p0), flag_O, flag_g))
    /\ UNCHANGED <<errors_vars, reduced, p0, flag_O, flag_g>>
    /\ OthersUnchangedByCompiler

NextCompiler ==
    \/ p_unlabeled_statement_assign
    \/ p_callable_call_arguments
    \/ p_structured_statement
    \/ parse
    \/ export


(***************************************************************************)
(* Specifications: each runs one component from its state after            *)
(* construction. The optimizer and the type checker hold no symbol table   *)
(* (the parser owns it), so scopes is empty in their specifications.       *)
(***************************************************************************)
\* an instruction list is handed to apply_ewvm_peephole_optimizations
InitPeephole ==
    /\ input \in Programs
    /\ program = input
    /\ ret = <<>>
    /\ i = 0
    /\ pc = "pass"
    /\ passes = 0
    /\ scopes = <<>>
    /\ outcome = Idle
    /\ operation = NoOperation
    /\ tc_result = Pending
    /\ variable_type = BuiltInType_INTEGER
    /\ current_type = BuiltInType_INTEGER
    /\ indices = <<>>
    /\ ix_error = FALSE
    /\ expression = NoExpression
    /\ tree = NoExpression
    /\ stage = "idle"
    /\ runs = 0
    /\ optimized = NoExpression
    /\ has_errors = FALSE
    /\ diagnostics = <<>>
    /\ any_block_list = <<>>
    /\ block = NoBlock
    /\ block_pc = "idle"
    /\ parse_pc = "idle"
    /\ open_callables = <<>>
    /\ recovering_from = ""
    /\ started = 0
    /\ calls = NoCalls
    /\ attempts = NoCalls
    /\ parse_result = ""
    /\ range_bounds = <<>>
    /\ range_type = NoRange
    /\ range_pc = "idle"
    /\ lexdata = <<>>
    /\ lexpos = 0
    /\ lineno = 1
    /\ last_error = <<>>
    /\ lexer_has_errors = FALSE
    /\ reported = <<>>
    /\ tokens = <<>>
    /\ unrecognized = {}
    /\ lex_pc = "idle"
    /\ reduced = NoStatement
    /\ p0 = NoStatement
    /\ flag_O = FALSE
    /\ flag_g = FALSE
    /\ exported = <<>>
    /\ compile_pc = "idle"

\* an instruction list over one statement of each kind the pass tells apart
InitPeepholeFair ==
    /\ input \in TerminatingPrograms
    /\ program = input
    /\ ret = <<>>
    /\ i = 0
    /\ pc = "pass"
    /\ passes = 0
    /\ scopes = <<>>
    /\ outcome = Idle
    /\ operation = NoOperation
    /\ tc_result = Pending
    /\ variable_type = BuiltInType_INTEGER
    /\ current_type = BuiltInType_INTEGER
    /\ indices = <<>>
    /\ ix_error = FALSE
    /\ expression = NoExpression
    /\ tree = NoExpression
    /\ stage = "idle"
    /\ runs = 0
    /\ optimized = NoExpression
    /\ has_errors = FALSE
    /\ diagnostics = <<>>
    /\ any_block_list = <<>>
    /\ block = NoBlock
    /\ block_pc = "idle"
    /\ parse_pc = "idle"
    /\ open_callables = <<>>
    /\ recovering_from = ""
    /\ started = 0
    /\ calls = NoCalls
    /\ attempts = NoCalls
    /\ parse_result = ""
    /\ range_bounds = <<>>
    /\ range_type = NoRange
    /\ range_pc = "idle"
    /\ lexdata = <<>>
    /\ lexpos = 0
    /\ lineno = 1
    /\ last_error = <<>>
    /\ lexer_has_errors = FALSE
    /\ reported = <<>>
    /\ tokens = <<>>
    /\ unrecognized = {}
    /\ lex_pc = "idle"
    /\ reduced = NoStatement
    /\ p0 = NoStatement
    /\ flag_O = FALSE
    /\ flag_g = FALSE
    /\ exported = <<>>
    /\ compile_pc = "idle"

\* SymbolTable.__init__
InitSymtab ==
    /\ scopes = InitialScopes
    /\ outcome = Idle
    /\ input = <<>>
    /\ program = <<>>
    /\ ret = <<>>
    /\ i = 0
    /\ pc = "idle"
    /\ passes = 0
    /\ operation = NoOperation
    /\ tc_result = Pending
    /\ variable_type = BuiltInType_INTEGER
    /\ current_type = BuiltInType_INTEGER
    /\ indices = <<>>
    /\ ix_error = FALSE
    /\ expression = NoExpression
    /\ tree = NoExpression
    /\ stage = "idle"
    /\ runs = 0
    /\ optimized = NoExpression
    /\ has_errors = FALSE
    /\ diagnostics = <<>>
    /\ any_block_list = <<>>
    /\ block = NoBlock
    /\ block_pc = "idle"
    /\ parse_pc = "idle"
    /\ open_callables = <<>>
    /\ recovering_from = ""
    /\ started = 0
    /\ calls = NoCalls
    /\ attempts = NoCalls
    /\ parse_result = ""
    /\ range_bounds = <<>>
    /\ range_type = NoRange
    /\ range_pc = "idle"
    /\ lexdata = <<>>
    /\ lexpos = 0
    /\ lineno = 1
    /\ last_error = <<>>
    /\ lexer_has_errors = FALSE
    /\ reported = <<>>
    /\ tokens = <<>>
    /\ unrecognized = {}
    /\ lex_pc = "idle"
    /\ reduced = NoStatement
    /\ p0 = NoStatement
    /\ flag_O = FALSE
    /\ flag_g = FALSE
    /\ exported = <<>>
    /\ compile_pc = "idle"

\* a BinaryOperation is handed to get_binary_operation_type
InitTypes ==
    /\ operation \in [operator : BinaryOperators, left : OperandTypes, right : OperandTypes]
    /\ tc_result = Pending
    /\ scopes = <<>>
    /\ outcome = Idle
    /\ input = <<>>
    /\ program = <<>>
    /\ ret = <<>>
    /\ i = 0
    /\ pc = "idle"
    /\ passes = 0
    /\ variable_type = BuiltInType_INTEGER
    /\ current_type = BuiltInType_INTEGER
    /\ indices = <<>>
    /\ ix_error = FALSE
    /\ expression = NoExpression
    /\ tree = NoExpression
    /\ stage = "idle"
    /\ runs = 0
    /\ optimized = NoExpression
    /\ has_errors = FALSE
    /\ diagnostics = <<>>
    /\ any_block_list = <<>>
    /\ block = NoBlock
    /\ block_pc = "idle"
    /\ parse_pc = "idle"
    /\ open_callables = <<>>
    /\ recovering_from = ""
    /\ started = 0
    /\ calls = NoCalls
    /\ attempts = NoCalls
    /\ parse_result = ""
    /\ range_bounds = <<>>
    /\ range_type = NoRange
    /\ range_pc = "idle"
    /\ lexdata = <<>>
    /\ lexpos = 0
    /\ lineno = 1
    /\ last_error = <<>>
    /\ lexer_has_errors = FALSE
    /\ reported = <<>>
    /\ tokens = <<>>
    /\ unrecognized = {}
    /\ lex_pc = "idle"
    /\ reduced = NoStatement
    /\ p0 = NoStatement
    /\ flag_O = FALSE
    /\ flag_g = FALSE
    /\ exported = <<>>
    /\ compile_pc = "idle"

\* a variable of some type is used with indices (p_variable_usage)
InitIndexation ==
    /\ variable_type \in VariableTypes
    /\ current_type = variable_type
    /\ indices = <<>>
    /\ ix_error = FALSE
    /\ operation = NoOperation
    /\ tc_result = Pending
    /\ scopes = <<>>
    /\ outcome = Idle
    /\ input = <<>>
    /\ program = <<>>
    /\ ret = <<>>
    /\ i = 0
    /\ pc = "idle"
    /\ passes = 0
    /\ expression = NoExpression
    /\ tree = NoExpression
    /\ stage = "idle"
    /\ runs = 0
    /\ optimized = NoExpression
    /\ has_errors = FALSE
    /\ diagnostics = <<>>
    /\ any_block_list = <<>>
    /\ block = NoBlock
    /\ block_pc = "idle"
    /\ parse_pc = "idle"
    /\ open_callables = <<>>
    /\ recovering_from = ""
    /\ started = 0
    /\ calls = NoCalls
    /\ attempts = NoCalls
    /\ parse_result = ""
    /\ range_bounds = <<>>
    /\ range_type = NoRange
    /\ range_pc = "idle"
    /\ lexdata = <<>>
    /\ lexpos = 0
    /\ lineno = 1
    /\ last_error = <<>>
    /\ lexer_has_errors = FALSE
    /\ reported = <<>>
    /\ tokens = <<>>
    /\ unrecognized = {}
    /\ lex_pc = "idle"
    /\ reduced = NoStatement
    /\ p0 = NoStatement
    /\ flag_O = FALSE
    /\ flag_g = FALSE
    /\ exported = <<>>
    /\ compile_pc = "idle"

\* an expression of the parsed program is handed to the replacer
InitOptimizer ==
    /\ \E n \in 1..MaxNodes : \E k \in 0..(n - 1) :
          IF n = 1
          THEN expression \in Leaves
          ELSE k <= n - 2 /\ expression \in ExpressionsSplitAt(n, k)
    /\ tree = expression
    /\ stage = "fold"
    /\ runs = 0
    /\ optimized = NoExpression
    /\ variable_type = BuiltInType_INTEGER
    /\ current_type = BuiltInType_INTEGER
    /\ indices = <<>>
    /\ ix_error = FALSE
    /\ operation = NoOperation
    /\ tc_result = Pending
    /\ scopes = <<>>
    /\ outcome = Idle
    /\ input = <<>>
    /\ program = <<>>
    /\ ret = <<>>
    /\ i = 0
    /\ pc = "idle"
    /\ passes = 0
    /\ has_errors = FALSE
    /\ diagnostics = <<>>
    /\ any_block_list = <<>>
    /\ block = NoBlock
    /\ block_pc = "idle"
    /\ parse_pc = "idle"
    /\ open_callables = <<>>
    /\ recovering_from = ""
    /\ started = 0
    /\ calls = NoCalls
    /\ attempts = NoCalls
    /\ parse_result = ""
    /\ range_bounds = <<>>
    /\ range_type = NoRange
    /\ range_pc = "idle"
    /\ lexdata = <<>>
    /\ lexpos = 0
    /\ lineno = 1
    /\ last_error = <<>>
    /\ lexer_has_errors = FALSE
    /\ reported = <<>>
    /\ tokens = <<>>
    /\ unrecognized = {}
    /\ lex_pc = "idle"
    /\ reduced = NoStatement
    /\ p0 = NoStatement
    /\ flag_O = FALSE
    /\ flag_g = FALSE
    /\ exported = <<>>
    /\ compile_pc = "idle"

\* the sections of a block have been reduced and its BEGIN ... END follows
InitBlock ==
    /\ input = <<>>
    /\ program = <<>>
    /\ ret = <<>>
    /\ i = 0
    /\ pc = "idle"
    /\ passes = 0
    /\ scopes = <<>>
    /\ outcome = Idle
    /\ operation = NoOperation
    /\ tc_result = Pending
    /\ variable_type = BuiltInType_INTEGER
    /\ current_type = BuiltInType_INTEGER
    /\ indices = <<>>
    /\ ix_error = FALSE
    /\ expression = NoExpression
    /\ tree = NoExpression
    /\ stage = "idle"
    /\ runs = 0
    /\ optimized = NoExpression
    /\ has_errors = FALSE
    /\ diagnostics = <<>>
    /\ any_block_list \in AnyBlockLists(MaxSections)
    /\ block = NoBlock
    /\ block_pc = "sections"
    /\ parse_pc = "idle"
    /\ open_callables = <<>>
    /\ recovering_from = ""
    /\ started = 0
    /\ calls = NoCalls
    /\ attempts = NoCalls
    /\ parse_result = ""
    /\ range_bounds = <<>>
    /\ range_type = NoRange
    /\ range_pc = "idle"
    /\ lexdata = <<>>
    /\ lexpos = 0
    /\ lineno = 1
    /\ last_error = <<>>
    /\ lexer_has_errors = FALSE
    /\ reported = <<>>
    /\ tokens = <<>>
    /\ unrecognized = {}
    /\ lex_pc = "idle"
    /\ reduced = NoStatement
    /\ p0 = NoStatement
    /\ flag_O = FALSE
    /\ flag_g = FALSE
    /\ exported = <<>>
    /\ compile_pc = "idle"

\* PROGRAM ID ';' has been read: the parser is at the start of the
\* program's block, with the symbol table as constructed
InitParser ==
    /\ input = <<>>
    /\ program = <<>>
    /\ ret = <<>>
    /\ i = 0
    /\ pc = "idle"
    /\ passes = 0
    /\ scopes = InitialScopes
    /\ outcome = Idle
    /\ operation = NoOperation
    /\ tc_result = Pending
    /\ variable_type = BuiltInType_INTEGER
    /\ current_type = BuiltInType_INTEGER
    /\ indices = <<>>
    /\ ix_error = FALSE
    /\ expression = NoExpression
    /\ tree = NoExpression
    /\ stage = "idle"
    /\ runs = 0
    /\ optimized = NoExpression
    /\ has_errors = FALSE
    /\ diagnostics = <<>>
    /\ any_block_list = <<>>
    /\ block = NoBlock
    /\ block_pc = "idle"
    /\ parse_pc = "block"
    /\ open_callables = <<>>
    /\ recovering_from = ""
    /\ started = 0
    /\ calls = NoCalls
    /\ attempts = NoCalls
    /\ parse_result = ""
    /\ range_bounds = <<>>
    /\ range_type = NoRange
    /\ range_pc = "idle"
    /\ lexdata = <<>>
    /\ lexpos = 0
    /\ lineno = 1
    /\ last_error = <<>>
    /\ lexer_has_errors = FALSE
    /\ reported = <<>>
    /\ tokens = <<>>
    /\ unrecognized = {}
    /\ lex_pc = "idle"
    /\ reduced = NoStatement
    /\ p0 = NoStatement
    /\ flag_O = FALSE
    /\ flag_g = FALSE
    /\ exported = <<>>
    /\ compile_pc = "idle"

\* the parser has shifted the first token of a range-type
InitRange ==
    /\ input = <<>>
    /\ program = <<>>
    /\ ret = <<>>
    /\ i = 0
    /\ pc = "idle"
    /\ passes = 0
    /\ scopes = <<>>
    /\ outcome = Idle
    /\ operation = NoOperation
    /\ tc_result = Pending
    /\ variable_type = BuiltInType_INTEGER
    /\ current_type = BuiltInType_INTEGER
    /\ indices = <<>>
    /\ ix_error = FALSE
    /\ expression = NoExpression
    /\ tree = NoExpression
    /\ stage = "idle"
    /\ runs = 0
    /\ optimized = NoExpression
    /\ has_errors = FALSE
    /\ diagnostics = <<>>
    /\ any_block_list = <<>>
    /\ block = NoBlock
    /\ block_pc = "idle"
    /\ parse_pc = "idle"
    /\ open_callables = <<>>
    /\ recovering_from = ""
    /\ started = 0
    /\ calls = NoCalls
    /\ attempts = NoCalls
    /\ parse_result = ""
    /\ range_bounds = <<>>
    /\ range_type = NoRange
    /\ range_pc = "constants"
    /\ lexdata = <<>>
    /\ lexpos = 0
    /\ lineno = 1
    /\ last_error = <<>>
    /\ lexer_has_errors = FALSE
    /\ reported = <<>>
    /\ tokens = <<>>
    /\ unrecognized = {}
    /\ lex_pc = "idle"
    /\ reduced = NoStatement
    /\ p0 = NoStatement
    /\ flag_O = FALSE
    /\ flag_g = FALSE
    /\ exported = <<>>
    /\ compile_pc = "idle"

\* create_lexer, then lexer.input(source)
InitLexer ==
    /\ input = <<>>
    /\ program = <<>>
    /\ ret = <<>>
    /\ i = 0
    /\ pc = "idle"
    /\ passes = 0
    /\ scopes = <<>>
    /\ outcome = Idle
    /\ operation = NoOperation
    /\ tc_result = Pending
    /\ variable_type = BuiltInType_INTEGER
    /\ current_type = BuiltInType_INTEGER
    /\ indices = <<>>
    /\ ix_error = FALSE
    /\ expression = NoExpression
    /\ tree = NoExpression
    /\ stage = "idle"
    /\ runs = 0
    /\ optimized = NoExpression
    /\ has_errors = FALSE
    /\ diagnostics = <<>>
    /\ any_block_list = <<>>
    /\ block = NoBlock
    /\ block_pc = "idle"
    /\ parse_pc = "idle"
    /\ open_callables = <<>>
    /\ recovering_from = ""
    /\ started = 0
    /\ calls = NoCalls
    /\ attempts = NoCalls
    /\ parse_result = ""
    /\ range_bounds = <<>>
    /\ range_type = NoRange
    /\ range_pc = "idle"
    /\ lexdata \in Sources
    /\ lexpos = 0
    /\ lineno = 1
    /\ last_error = <<>>
    /\ lexer_has_errors = FALSE
    /\ reported = <<>>
    /\ tokens = <<>>
    /\ unrecognized = {}
    /\ lex_pc = "lexing"
    /\ reduced = NoStatement
    /\ p0 = NoStatement
    /\ flag_O = FALSE
    /\ flag_g = FALSE
    /\ exported = <<>>
    /\ compile_pc = "idle"

\* the productions inside one statement have run; plpc was started with or without -O and -g
InitCompiler ==
    /\ input = <<>>
    /\ program = <<>>
    /\ ret = <<>>
    /\ i = 0
    /\ pc = "idle"
    /\ passes = 0
    /\ scopes = <<>>
    /\ outcome = Idle
    /\ operation = NoOperation
    /\ tc_result = Pending
    /\ variable_type = BuiltInType_INTEGER
    /\ current_type = BuiltInType_INTEGER
    /\ indices = <<>>
    /\ ix_error = FALSE
    /\ expression = NoExpression
    /\ tree = NoExpression
    /\ stage = "idle"
    /\ runs = 0
    /\ optimized = NoExpression
    /\ has_errors = FALSE
    /\ diagnostics = <<>>
    /\ any_block_list = <<>>
    /\ block = NoBlock
    /\ block_pc = "idle"
    /\ parse_pc = "idle"
    /\ open_callables = <<>>
    /\ recovering_from = ""
    /\ started = 0
    /\ calls = NoCalls
    /\ attempts = NoCalls
    /\ parse_result = ""
    /\ range_bounds = <<>>
    /\ range_type = NoRange
    /\ range_pc = "idle"
    /\ lexdata = <<>>
    /\ lexpos = 0
    /\ lineno = 1
    /\ last_error = <<>>
    /\ lexer_has_errors = FALSE
    /\ reported = <<>>
    /\ tokens = <<>>
    /\ unrecognized = {}
    /\ lex_pc = "idle"
    /\ reduced \in AssignStatements \cup CallStatements \cup Structured
    /\ p0 = NoStatement
    /\ flag_O \in BOOLEAN
    /\ flag_g \in BOOLEAN
    /\ exported = <<>>
    /\ compile_pc = "statement"

SpecPeephole == InitPeephole /\ [][NextPeephole]_vars

\* the optimizer is a sequential loop: whenever a step of it can be taken,
\* one is taken
SpecPeepholeFair == InitPeepholeFair /\ [][NextPeephole]_vars /\ WF_vars(NextPeephole)

SpecSymtab == InitSymtab /\ [][NextSymtab]_vars

SpecTypes == InitTypes /\ [][NextTypes]_vars

SpecIndexation == InitIndexation /\ [][NextIndexation]_vars

SpecOptimizer == InitOptimizer /\ [][NextOptimizer]_vars

SpecBlock == InitBlock /\ [][NextBlock]_vars

SpecParser == InitParser /\ [][NextParser]_vars

SpecRange == InitRange /\ [][NextRange]_vars

SpecLexer == InitLexer /\ [][NextLexer]_vars

SpecCompiler == InitCompiler /\ [][NextCompiler]_vars

(***************************************************************************)
(* Properties of the peephole optimizer (SpecPeephole)                     *)
(***************************************************************************)
\* the list apply_ewvm_peephole_optimizations returns (previous_program)
Returned == pc = "done"

IsSeparator(e) == e.kind \in {"Label", "Comment"}

Before(list, p) == SubSeq(list, 1, p - 1)
After(list, p) == SubSeq(list, p + 1, Len(list))

\* list[a+1 .. a+n] is a maximal run of PUSHI 0 / PUSHF 0.0
MaximalZeroRun(list, a, n) ==
    /\ n >= 1 /\ a + n <= Len(list)
    /\ \A k \in (a + 1)..(a + n) : list[k] \in {PUSHI0, PUSHF0}
    /\ a = 0 \/ list[a] \notin {PUSHI0, PUSHF0}
    /\ a + n = Len(list) \/ list[a + n + 1] \notin {PUSHI0, PUSHF0}

\* C1: the optimizer is idempotent: one more pass over the returned list, and
\* the whole optimizer run on it again, give back the returned list.
C1_Idempotent ==
    Returned =>
        /\ optimization_pass(program) = program
        /\ apply_ewvm_peephole_optimizations(program) = program

\* C1 witness: an input that needed two rewriting passes before the pass
\* that changed nothing
C1_Witness == Returned /\ passes >= 3 /\ program # input

\* C2: every maximal run of N >= 2 zero pushes of the input is replaced, in
\* its place, by exactly one PUSHN N: the output is the optimized prefix,
\* PUSHN N, the optimized suffix.
C2_ZeroRunCollapsed ==
    Returned =>
        \A a \in 0..Len(input), n \in 2..Len(input) :
            MaximalZeroRun(input, a, n) =>
                program = apply_ewvm_peephole_optimizations(SubSeq(input, 1, a))
                          \o <<PUSHN(n)>>
                          \o apply_ewvm_peephole_optimizations(After(input, a + n))

\* C2 witness: a mixed run in the middle of the program, between two
\* instructions, has been collapsed
C2_Witness ==
    /\ Returned
    /\ Len(input) = 4
    /\ MaximalZeroRun(input, 1, 2)
    /\ input[2] # input[3]
    /\ isinstance_EWVMStatement(input[1]) /\ isinstance_EWVMStatement(input[4])
    /\ \E k \in 1..Len(program) : program[k] = PUSHN(2)

\* C3: a zero-push run of length 1 is left unchanged, whatever follows it:
\* the output is the optimized prefix, the instruction itself, the optimized
\* suffix.
C3_SingleZeroPushUnchanged ==
    Returned =>
        \A a \in 0..Len(input) :
            MaximalZeroRun(input, a, 1) =>
                program = apply_ewvm_peephole_optimizations(SubSeq(input, 1, a))
                          \o <<input[a + 1]>>
                          \o apply_ewvm_peephole_optimizations(After(input, a + 1))

IsStore(e) == isinstance_EWVMStatement(e) /\ e.instruction \in {"STOREL", "STOREG"}
IsPush(e) == isinstance_EWVMStatement(e) /\ e.instruction \in {"PUSHL", "PUSHG"}
Bank(e) == IF e.instruction \in {"STOREL", "PUSHL"} THEN "L" ELSE "G"

\* C4: at an adjacent pair STOREx k ; PUSHy j the pass appends DUP 1 ;
\* STOREx k and skips both exactly when x = y and k = j; otherwise it copies
\* the STORE, and then the PUSH, unchanged.
C4_StorePush ==
    [][ /\ (/\ pc = "pass" /\ i + 1 < Len(program)
            /\ IsStore(At(program, i)) /\ IsPush(At(program, i + 1)))
           => IF /\ Bank(At(program, i)) = Bank(At(program, i + 1))
                 /\ At(program, i).arguments = At(program, i + 1).arguments
              THEN ret' = ret \o <<DUP1, At(program, i)>> /\ i' = i + 2
              ELSE ret' = Append(ret, At(program, i)) /\ i' = i + 1
        /\ (/\ pc = "pass" /\ 0 < i /\ i < Len(program)
            /\ IsStore(At(program, i - 1)) /\ IsPush(At(program, i)))
           => ret' = Append(ret, At(program, i)) /\ i' = i + 1
      ]_vars

\* C4 witness: the pass has just rewritten a matching pair of the global bank
C4_Witness ==
    /\ pc = "pass" /\ i >= 2 /\ Len(ret) >= 2
    /\ At(program, i - 2) = EWVMStatement("STOREG", <<0>>)
    /\ At(program, i - 1) = EWVMStatement("PUSHG", <<0>>)
    /\ SubSeq(ret, Len(ret) - 1, Len(ret)) = <<DUP1, EWVMStatement("STOREG", <<0>>)>>

\* C5: no rewrite spans a label or a comment and every label and comment
\* keeps its place: at each label or comment of the input, the output is the
\* optimized part before it, the label or comment, the optimized part
\* after it.
C5_SeparatorsKept ==
    Returned =>
        \A p \in 1..Len(input) :
            IsSeparator(input[p]) =>
                program = apply_ewvm_peephole_optimizations(Before(input, p))
                          \o <<input[p]>>
                          \o apply_ewvm_peephole_optimizations(After(input, p))

\* C5 witness: a label ends a zero-push run: the PUSHI 0 before it stays
\* alone and the two zero pushes after it were collapsed
C5_Witness ==
    /\ Returned
    /\ Len(input) = 4
    /\ input[1] = PUSHI0
    /\ input[2] = Label("SYS1")
    /\ input[3] \in {PUSHI0, PUSHF0} /\ input[4] \in {PUSHI0, PUSHF0}
    /\ program = <<PUSHI0, Label("SYS1"), PUSHN(2)>>

(***************************************************************************)
(* Properties of the symbol table (SpecSymtab)                             *)
(***************************************************************************)
TopScope(scs) == scs[Len(scs)]

\* the step is a call of the method op
Calls(op) == outcome = Idle /\ outcome'.op = op

\* the scopes that bind a key, as indices of the stack
Binding(scs, key) == {j \in 1..Len(scs) : key \in DOMAIN scs[j]}

Maximum(S) == CHOOSE m \in S : \A k \in S : k <= m

\* C6: add of a definition whose lowercased name is bound in the top-most
\* scope raises SymbolTableError and leaves every scope as it was.
C6_RedefinitionRejected ==
    [][ (/\ Calls("add")
         /\ Len(scopes) > 0
         /\ Lower(NameOf(outcome'.arg_def)) \in DOMAIN TopScope(scopes))
        => /\ outcome'.raised = "SymbolTableError"
           /\ scopes' = scopes
      ]_vars

\* C6 witness: an add was rejected in a callable's scope, where the name is
\* bound to another definition, spelled in the other letter case
C6_Witness ==
    /\ outcome.op = "add" /\ outcome.raised = "SymbolTableError"
    /\ Len(scopes) = 2
    /\ outcome.arg_name = <<"X">>
    /\ <<"x">> \in DOMAIN TopScope(scopes)
    /\ TopScope(scopes)[<<"x">>] # outcome.arg_def
    /\ TopScope(scopes)[<<"x">>].name = <<"x">>

\* C7: an add that shadows a definition d of an outer scope succeeds with a
\* warning, makes the name resolve to the new definition in the top-most
\* scope, modifies no outer scope, and once the top-most scope is unstacked
\* the name resolves to d again.
C7_ShadowingScoped ==
    [][ (/\ Calls("add")
         /\ Len(scopes) >= 2
         /\ Lower(NameOf(outcome'.arg_def)) \notin DOMAIN TopScope(scopes)
         /\ Binding(scopes, Lower(NameOf(outcome'.arg_def))) # {})
        => LET name == NameOf(outcome'.arg_def)
               d == query(scopes, name, FALSE).result
           IN /\ outcome'.raised = "" /\ outcome'.diag = "warning"
              /\ query(scopes', name, FALSE).result = outcome'.arg_def
              /\ query(scopes', name, FALSE).top
              /\ Len(scopes') = Len(scopes)
              /\ \A j \in 1..(Len(scopes) - 1) : scopes'[j] = scopes[j]
              /\ query(unstack_top_scope(scopes'), name, FALSE).result = d
      ]_vars

\* C7 witness: a definition of the global scope has just been shadowed by
\* a different one in the callable's scope
C7_Witness ==
    /\ outcome.op = "add" /\ outcome.diag = "warning"
    /\ Len(scopes) = 2
    /\ query(scopes, outcome.arg_name, FALSE).result = outcome.arg_def
    /\ query(unstack_top_scope(scopes), outcome.arg_name, FALSE).result
           \notin {None, outcome.arg_def}

\* C8: query resolves case-insensitively and innermost-first: it returns the
\* definition bound to lower(name) in the scope closest to the top that binds
\* it, is_top_scope being true exactly for the top-most scope; names that
\* differ only in letter case resolve alike; a scope holds at most one
\* definition per lowercased name, every key of a scope being its own
\* lowercase form.
C8_QueryResolution ==
    /\ outcome.op = "query" /\ outcome.raised = ""
       => LET key == Lower(outcome.arg_name)
              bound == Binding(scopes, key)
          IN IF bound = {}
             THEN outcome.result = None /\ ~outcome.top
             ELSE /\ outcome.result = scopes[Maximum(bound)][key]
                  /\ outcome.top = (Maximum(bound) = Len(scopes))
    /\ outcome.op = "query" /\ outcome.raised # ""
       => Binding(scopes, Lower(outcome.arg_name)) = {}
    /\ \A n1, n2 \in QueryIdentifiers :
           Lower(n1) = Lower(n2) => query(scopes, n1, FALSE) = query(scopes, n2, FALSE)
    /\ \A j \in 1..Len(scopes) : \A k \in DOMAIN scopes[j] : Lower(k) = k

\* C8 witness: a query spelled in upper case found the definition of the
\* callable's scope, not the different one the global scope binds
C8_Witness ==
    /\ outcome.op = "query" /\ outcome.arg_name = <<"X">>
    /\ Len(scopes) = 2
    /\ outcome.top
    /\ <<"x">> \in DOMAIN scopes[1]
    /\ outcome.result # scopes[1][<<"x">>]
    /\ outcome.result.name = <<"x">>

KindOfQuery ==
    [query_constant |-> "ConstantDefinition", query_type |-> "TypeDefinition",
     query_variable |-> "VariableDefinition", query_callable |-> "CallableDefinition",
     query_label |-> "LabelDefinition"]

\* C9: a kind-filtered query raises SymbolTableError when the name resolves
\* to a definition of another kind, query_label also when the label is bound
\* only below the top-most scope, and no such query changes the table.
C9_KindFilteredQueries ==
    [][ \A op \in DOMAIN KindOfQuery :
          Calls(op) =>
            LET key == Lower(outcome'.arg_name)
                bound == Binding(scopes, key)
            IN /\ scopes' = scopes
               /\ (bound # {} /\ scopes[Maximum(bound)][key].kind # KindOfQuery[op])
                      => outcome'.raised = "SymbolTableError"
               /\ (op = "query_label" /\ bound # {} /\ Maximum(bound) < Len(scopes))
                      => outcome'.raised = "SymbolTableError"
               /\ outcome'.raised = ""
                      => /\ bound # {}
                         /\ outcome'.result = scopes[Maximum(bound)][key]
                         /\ outcome'.result.kind = KindOfQuery[op]
      ]_vars

\* C9 witness: query_label was rejected for a label that is bound, but only
\* in the scope below the top-most one
C9_Witness ==
    /\ outcome.op = "query_label" /\ outcome.raised = "SymbolTableError"
    /\ Len(scopes) = 2
    /\ <<"1">> \notin DOMAIN scopes[2]
    /\ <<"1">> \in DOMAIN scopes[1]
    /\ scopes[1][<<"1">>].kind = "LabelDefinition"

(***************************************************************************)
(* Properties of the type checker (SpecTypes)                              *)
(***************************************************************************)
Numeric == {BuiltInType_INTEGER, BuiltInType_REAL}

\* the table of binary operators: the result type, or TypeCheckerError
BinaryTable(operator, left, right) ==
    CASE operator \in {"+", "-", "*"} /\ left \in Numeric /\ right \in Numeric ->
            Returns(IF BuiltInType_REAL \in {left, right}
                    THEN BuiltInType_REAL ELSE BuiltInType_INTEGER)
      [] operator = "/" /\ left \in Numeric /\ right \in Numeric ->
            Returns(BuiltInType_REAL)
      [] operator \in {"div", "mod"} /\ left = BuiltInType_INTEGER /\ right = BuiltInType_INTEGER ->
            Returns(BuiltInType_INTEGER)
      [] operator \in {"and", "or"} /\ left = BuiltInType_BOOLEAN /\ right = BuiltInType_BOOLEAN ->
            Returns(BuiltInType_BOOLEAN)
      [] operator \in {"=", "<>", "<", ">", "<="} /\ left = right ->
            Returns(BuiltInType_BOOLEAN)
      [] OTHER -> TypeCheckerError

\* C10: for every operator and every pair of built-in operand types,
\* get_binary_operation_type gives the result of the table of binary
\* operators, and raises TypeCheckerError for every combination the table
\* does not list.
C10_BinaryOperationTable ==
    (/\ tc_result # Pending
     /\ operation.left \in BuiltInTypes /\ operation.right \in BuiltInTypes)
    => tc_result = BinaryTable(operation.operator, operation.left, operation.right)

\* C10 witness: INTEGER + REAL was typed REAL
C10_Witness ==
    /\ operation = [operator |-> "+", left |-> BuiltInType_INTEGER, right |-> BuiltInType_REAL]
    /\ tc_result = Returns(BuiltInType_REAL)

\* C11: the relational operator >= works: for two operands of the same
\* built-in type, get_binary_operation_type with operator '>=' returns
\* BOOLEAN (so that `a >= b` is accepted by p_expression_multiple and
\* reaches the SUPEQ/FSUPEQ path of the code generator).
C11_GreaterEqualWorks ==
    (/\ tc_result # Pending
     /\ operation.operator = ">="
     /\ operation.left \in BuiltInTypes
     /\ operation.left = operation.right)
    => tc_result = Returns(BuiltInType_BOOLEAN)

(***************************************************************************)
(* Properties of indexation (SpecIndexation)                               *)
(***************************************************************************)
\* an index of type index may be used where a value of type subtype is wanted
Assignable(subtype, index) ==
    \/ subtype = index
    \/ subtype = BuiltInType_REAL /\ index = BuiltInType_INTEGER
    \/ subtype = BuiltInType_STRING /\ index = BuiltInType_CHAR

IsArray(t) == t.tag = "ArrayType"

\* what the claim says one indexation of type t by index gives
Peeled(t, index) ==
    IF IsArray(t) /\ Assignable(t.dimensions[1].subtype, index)
    THEN IF Len(t.dimensions) > 1
         THEN Returns(ArrayType(t.subtype, SubSeq(t.dimensions, 2, Len(t.dimensions))))
         ELSE Returns(t.subtype)
    ELSE IF t = BuiltInType_STRING /\ index = BuiltInType_INTEGER
    THEN Returns(BuiltInType_CHAR)
    ELSE TypeCheckerError

\* C12: type_after_indexation peels exactly one dimension: an array with
\* dimensions d1..dn indexed by a type assignable to d1's subtype becomes the
\* array of the same elements with dimensions d2..dn, or its element type
\* when n = 1; STRING indexed by INTEGER gives CHAR; indexing anything that
\* is neither an array nor STRING, or with an index type that is not
\* assignable to the first dimension's subtype, raises TypeCheckerError; and
\* an n-dimensional array indexed n times gives its element type.
C12_IndexationPeelsOneDimension ==
    [][(indices' # indices) =>
         LET index == indices'[Len(indices')]
             expected == Peeled(current_type, index)
         IN /\ (expected.raised = "") => (~ix_error' /\ current_type' = expected.type)
            /\ (expected.raised # "") => ix_error'
            /\ (/\ IsArray(variable_type)
                /\ ~ix_error'
                /\ Len(indices') = Len(variable_type.dimensions))
               => current_type' = variable_type.subtype]_vars

\* C12 witness: a two-dimensional array of REAL was indexed twice and gave REAL
C12_Witness ==
    /\ IsArray(variable_type)
    /\ Len(variable_type.dimensions) = 2
    /\ variable_type.subtype = BuiltInType_REAL
    /\ Len(indices) = 2
    /\ ~ix_error
    /\ current_type = BuiltInType_REAL

(***************************************************************************)
(* Properties of the AST optimizer (SpecOptimizer)                         *)
(***************************************************************************)
IsOperation(e) == e.node \in {"UnaryOperation", "BinaryOperation"}

\* C13: the AST optimizer is idempotent on expressions: applying
\* fold-then-simplify to an expression that was already optimized returns
\* the same tree.
C13_OptimizerIdempotent ==
    (runs >= 2 /\ stage \in {"fold", "done"}) => tree = optimized

\* C13 witness: (not p) and (not q) was rewritten by the first application
\* and left as it was by the second
C13_Witness ==
    /\ runs = 2
    /\ stage = "done"
    /\ expression.node = "BinaryOperation" /\ expression.operator = "and"
    /\ IsNot(optimized)
    /\ tree = optimized

\* every constant of the expression has a value of its annotated type
RECURSIVE ConstantsBelongToTheirTypes(_)
ConstantsBelongToTheirTypes(e) ==
    /\ IsConstant(e) => get_constant_type(e.value) = e.type
    /\ \A k \in 1..Len(e.args) : ConstantsBelongToTheirTypes(e.args[k])

\* C14: constant folding keeps types consistent: when an operation is
\* replaced by a constant, the constant carries the annotated type of the
\* operation and its value belongs to that type (a BOOLEAN node folds to a
\* bool, an INTEGER node to an int, a REAL node to a float); so every
\* constant of a folded expression has a value of its annotated type.
C14_FoldingKeepsTypes ==
    [][(stage = "fold" /\ stage' = "simplify") =>
         /\ (IsOperation(tree) /\ IsConstant(tree')) =>
               /\ tree'.type = tree.type
               /\ get_constant_type(tree'.value) = tree.type
         /\ ConstantsBelongToTheirTypes(tree')]_vars

\* C14 witness: an operation on an INTEGER and a REAL constant, annotated
\* REAL, was folded to a float
C14_Witness ==
    /\ stage = "simplify"
    /\ runs = 0
    /\ expression.node = "BinaryOperation"
    /\ expression.type = BuiltInType_REAL
    /\ \E k \in 1..2 : expression.args[k].type = BuiltInType_INTEGER
    /\ IsConstant(tree)
    /\ tree.value[1] = "float"

\* the logical complement of a relational operator
Complement(operator) ==
    CASE operator = "=" -> "<>"
      [] operator = "<>" -> "="
      [] operator = "<" -> ">="
      [] operator = ">=" -> "<"
      [] operator = ">" -> "<="
      [] operator = "<=" -> ">"

IsRelational(e) == e.node = "BinaryOperation" /\ e.operator \in {"=", "<>", "<", ">", "<=", ">="}

\* the expression under the leading `not`s of e, and their number
RECURSIVE NotDepth(_)
NotDepth(e) == IF IsNot(e) THEN 1 + NotDepth(e.args[1]) ELSE 0

RECURSIVE UnderNots(_)
UnderNots(e) == IF IsNot(e) THEN UnderNots(e.args[1]) ELSE e

\* C15: negation laws of the simplifier: `not not x` is simplified to what
\* x is simplified to; `not (x R y)` is simplified to `x R' y`, R' the
\* complement of R, typed BOOLEAN and with no `not` at its root; and at
\* every nesting depth of `not`, an odd number of `not`s over a relation
\* gives the complemented relation and an even number the relation, over
\* the same operands, while over a variable they leave `not x` and x.
C15_NegationLaws ==
    [][(stage = "simplify" /\ IsNot(tree)) =>
         LET sub == tree.args[1]
             core == UnderNots(tree)
             odd == NotDepth(tree) % 2 = 1
         IN /\ IsNot(sub) => tree' = simplify_expression(sub.args[1])
            /\ IsRelational(sub) =>
                  /\ tree' = BinaryOperation(Complement(sub.operator), sub.args[1], sub.args[2],
                                             BuiltInType_BOOLEAN)
                  /\ ~IsNot(tree')
            /\ IsRelational(core) =>
                  tree' = BinaryOperation(IF odd THEN Complement(core.operator) ELSE core.operator,
                                          core.args[1], core.args[2], BuiltInType_BOOLEAN)
            /\ core.node = "VariableUsage" =>
                  tree' = IF odd THEN UnaryOperation("not", core, BuiltInType_BOOLEAN) ELSE core]_vars

\* C15 witness: not not (x < y) went through x >= y and came back as x < y
C15_Witness ==
    /\ runs = 1
    /\ NotDepth(expression) = 2
    /\ IsRelational(UnderNots(expression))
    /\ UnderNots(expression).operator = "<"
    /\ UnderNots(expression).args[1].node = "VariableUsage"
    /\ optimized = UnderNots(expression)

\* the values a variable of the expressions may hold
Assignments ==
    [{"a", "b"} -> {PyBool(TRUE), PyBool(FALSE)}]

IntegerAssignments == {ConstantValue("int", 0), ConstantValue("int", 1), ConstantValue("int", 2)}

\* the value of an expression when a and b hold env[..] and x holds x_value
RECURSIVE Evaluate(_, _, _)
Evaluate(e, env, x_value) ==
    CASE e.node = "Constant" -> Value(e.value)
      [] e.node = "VariableUsage" ->
            Value(IF e.value[2] = "x" THEN x_value ELSE env[e.value[2]])
      [] e.node = "UnaryOperation" ->
            LET sub == Evaluate(e.args[1], env, x_value)
            IN IF sub.raised # "" THEN sub ELSE Value(unary_operation(e.operator, sub.value))
      [] e.node = "BinaryOperation" ->
            LET left == Evaluate(e.args[1], env, x_value)
                right == Evaluate(e.args[2], env, x_value)
            IN IF left.raised # "" THEN left
               ELSE IF right.raised # "" THEN right
               ELSE binary_operation(e.operator, left.value, right.value)

SameTruthValue(e, f) ==
    \A env \in Assignments : \A x_value \in IntegerAssignments :
        Evaluate(e, env, x_value) = Evaluate(f, env, x_value)

IsAndOr(e) == e.node = "BinaryOperation" /\ e.operator \in {"and", "or"}

\* C16: De Morgan rewrite of the simplifier: an `and` (resp. `or`) whose
\* operands both simplify to a `not` becomes `not (p or q)` (resp.
\* `not (p and q)`) over the un-negated operands, with the same truth value
\* under every assignment of the variables; and never the other way round:
\* the `not` of an `and` or `or` stays a `not`, and no `and` or `or` of two
\* `not`s is ever returned.
C16_DeMorgan ==
    [][(stage = "simplify") =>
         /\ IsAndOr(tree) =>
               LET left == simplify_expression(tree.args[1])
                   right == simplify_expression(tree.args[2])
               IN (IsNot(left) /\ IsNot(right)) =>
                     /\ tree' = UnaryOperation("not",
                                    BinaryOperation(IF tree.operator = "and" THEN "or" ELSE "and",
                                                    left.args[1], right.args[1],
                                                    BuiltInType_BOOLEAN),
                                    BuiltInType_BOOLEAN)
                     /\ SameTruthValue(tree, tree')
         /\ (IsNot(tree) /\ IsAndOr(simplify_expression(tree.args[1]))) =>
               tree' = UnaryOperation("not", simplify_expression(tree.args[1]), BuiltInType_BOOLEAN)
         /\ ~(IsAndOr(tree') /\ IsNot(tree'.args[1]) /\ IsNot(tree'.args[2]))]_vars

\* C16 witness: (not a) or (not b) became not (a and b)
C16_Witness ==
    /\ runs = 1
    /\ IsAndOr(expression) /\ expression.operator = "or"
    /\ IsNot(expression.args[1]) /\ IsNot(expression.args[2])
    /\ optimized = UnaryOperation("not",
                       BinaryOperation("and", expression.args[1].args[1], expression.args[2].args[1],
                                       BuiltInType_BOOLEAN),
                       BuiltInType_BOOLEAN)

(***************************************************************************)
(* C20: declaration-section order check of p_block                         *)
(***************************************************************************)
\* section n repeats a kind or comes after a later-ordered kind
Misplaced(n) ==
    \E m \in 1..(n - 1) :
        BlockOrder(any_block_list[m][1]) >= BlockOrder(any_block_list[n][1])

OrderErrors ==
    {k \in 1..Len(diagnostics) : diagnostics[k].message \in {WrongOrder, DefinedTwice}}

\* the field of a Block that holds the sections of one kind
BlockField(b, block_type) ==
    CASE block_type = "LABEL" -> b.labels
      [] block_type = "CONST" -> b.constants
      [] block_type = "TYPE" -> b.types
      [] block_type = "VAR" -> b.variables
      [] block_type = "CALL" -> b.callables

\* the sections of one kind that are correctly placed
CorrectlyPlaced(block_type) ==
    {n \in 1..Len(any_block_list) : any_block_list[n][1] = block_type /\ ~Misplaced(n)}

Min(S) == CHOOSE n \in S : \A m \in S : n <= m

\* C20: once p_block has run, no ordering or duplication error was emitted
\* if and only if no section is misplaced (the kinds are strictly increasing
\* in the order LABEL < CONST < TYPE < VAR < CALL); each misplaced section
\* got exactly one such error at its position and no other section got one;
\* and the Block holds, for each kind, the content of the first correctly
\* placed section of that kind, or nothing if there is none.
C20_SectionOrderCheck ==
    block_pc = "block" =>
        /\ (OrderErrors = {}) <=> (\A n \in 1..Len(any_block_list) : ~Misplaced(n))
        /\ \A n \in 1..Len(any_block_list) :
              Cardinality({k \in OrderErrors : diagnostics[k].start = n - 1})
                  = IF Misplaced(n) THEN 1 ELSE 0
        /\ \A k \in 1..Len(BlockTypes) :
              BlockField(block, BlockTypes[k])
                  = IF CorrectlyPlaced(BlockTypes[k]) = {} THEN <<>>
                    ELSE any_block_list[Min(CorrectlyPlaced(BlockTypes[k]))][2]
        /\ has_errors = (diagnostics # <<>>)

\* p_block has run over CONST, VAR, CONST: the second CONST section got an
\* error and the Block holds the first one
C20_Witness ==
    /\ block_pc = "block"
    /\ any_block_list = << <<"CONST", <<1>>>>, <<"VAR", <<1>>>>, <<"CONST", <<2>>>> >>
    /\ Cardinality(OrderErrors) = 1
    /\ block.constants = <<1>>
    /\ block.variables = <<1>>

(***************************************************************************)
(* C17: every error diagnostic ends in ParserError                         *)
(***************************************************************************)
ErrorDiagnostics == {k \in 1..Len(diagnostics) : ~diagnostics[k].warning}

\* C17: when parse() is over, it raised ParserError if at least one
\* diagnostic of error severity was printed, whoever printed it, and it
\* returned the AST if nothing or only warnings were printed.
C17_ErrorsEndInParserError ==
    parse_pc = "done" =>
        parse_result = IF ErrorDiagnostics # {} THEN "ParserError" ELSE "AST"

(***************************************************************************)
(* C18: scope pushes and pops are balanced                                 *)
(***************************************************************************)
\* C18: outside every callable definition (no heading is open: in the
\* program's own block and body, and when parsing has ended) the scope
\* stack holds the global scope only.
C18_ScopesBalanced ==
    (parse_pc \in {"block", "body", "callables", "done"} /\ open_callables = <<>>)
        => Len(scopes) = 1

(***************************************************************************)
(* C19: recursion is rejected                                              *)
(***************************************************************************)
\* the pairs joined by one or two steps of R
Compose(R) == R \cup {<<x[1][1], x[2][2]>> : x \in {y \in R \X R : y[1][2] = y[2][1]}}

\* CallableNames and the program make three callers: two compositions give
\* every path of up to four calls
Reaches == Compose(Compose(calls))

\* C19: when parse() returned the AST, no callable reaches itself through
\* the calls that were built, and no call of a callable was tried inside
\* its own body; and whenever such a call was tried, an error was recorded
\* unless the name stood for a callable that was defined before (its
\* redefinition is the error that is recorded when the definition ends).
C19_RecursionRejected ==
    /\ parse_result = "AST" =>
          /\ \A name \in CallableNames : <<name, name>> \notin Reaches
          /\ attempts = {}
    /\ \A a \in attempts :
          \/ has_errors
          \/ <<a[1], a[2]>> \in calls

\* g, defined after f, called f and the program parsed without error
C19_WitnessParsed ==
    /\ parse_result = "AST"
    /\ <<S_g, S_f>> \in calls
    /\ attempts = {}

\* f was called inside its own body and an error was recorded
C19_WitnessOwnBody ==
    /\ <<S_f, S_f>> \in attempts
    /\ has_errors
    /\ <<S_f, S_f>> \notin calls

(***************************************************************************)
(* C30: optimize_ast completes on every parsed program                     *)
(***************************************************************************)
\* C30: constant folding never leaves optimize_ast through an exception:
\* whatever the constants of a typed expression are, the folding returns an
\* expression.
C30_FoldingNeverRaises == stage # "raised" /\ ~IsRaised(tree)

(***************************************************************************)
(* C27: the fixed-point loop of the peephole optimizer terminates          *)
(***************************************************************************)
\* C27: from every instruction list the loop reaches, after finitely many
\* passes, the return of a list that the pass maps to itself; during a pass
\* no more items are written than were read, so every pass returns a list
\* that is no longer than its argument.
C27_PeepholeTerminates ==
    /\ <>(pc = "done")
    /\ [](pc = "done" => optimization_pass(program) = program)
    /\ [](pc = "pass" => Len(ret) <= i)
    /\ [][Len(program') <= Len(program)]_vars

\* the loop returned after a pass that changed the list and a pass that did
\* not, with a list shorter than its input
C27_Witness ==
    /\ pc = "done"
    /\ passes >= 2
    /\ Len(program) < Len(input)

(***************************************************************************)
(* Properties of the production range-type (SpecRange)                     *)
(***************************************************************************)
\* the ordinal type a constant belongs to, <<"none">> when it has none
OrdinalKind(constant) ==
    CASE constant[1] = "bool" -> <<"boolean">>
      [] constant[1] = "int" -> <<"integer">>
      [] constant[1] = "str" /\ Len(constant[2]) = 1 -> <<"char">>
      [] constant[1] = "enum" -> <<"enumerated", constant[4]>>
      [] OTHER -> <<"none">>

\* the position of an ordinal constant in its type
OrdinalOf(constant) ==
    CASE constant[1] = "bool" -> IF constant[2] THEN 1 ELSE 0
      [] constant[1] = "int" -> constant[2]
      [] constant[1] = "str" -> ord(constant[2])
      [] constant[1] = "enum" -> constant[3]

\* the bounds share one ordinal type and are in order
BoundsInOrder(start, end) ==
    /\ OrdinalKind(start) # <<"none">>
    /\ OrdinalKind(start) = OrdinalKind(end)
    /\ OrdinalOf(start) <= OrdinalOf(end)

ErrorPrinted == \E k \in 1..Len(diagnostics) : ~diagnostics[k].warning

\* C21: once both constants of a range-type are reduced and the production
\* has run, it has produced a RangeType whose bounds share one ordinal type
\* and are in order; and when the bounds written in the source are not so,
\* an error diagnostic was emitted and the RangeType is RangeType(1, 1, INTEGER)
C21_RangeInvariant ==
    (Len(range_bounds) = 2 /\ range_pc # "constants") =>
        /\ range_pc = "reduced"
        /\ range_type.tag = "RangeType"
        /\ BoundsInOrder(range_type.start, range_type.end)
        /\ ~BoundsInOrder(range_bounds[1], range_bounds[2]) =>
              /\ has_errors
              /\ ErrorPrinted
              /\ range_type = FallbackRange

(***************************************************************************)
(* Properties of the lexer (SpecLexer)                                     *)
(***************************************************************************)
\* the line of the source that position p lies in: 1 plus the newline
\* characters before p
LineOf(p) == 1 + Cardinality({k \in 0..(p - 1) : CharAt(lexdata, k) = Newline})

\* the diagnostics printed for the line
ReportedFor(line) == {k \in 1..Len(reported) : LineOf(reported[k].start) = line}

LexerDone == lex_pc \in {"eof", "raised"}

C26_LineCounter ==
    /\ \A k \in 1..Len(tokens) : tokens[k].lineno = LineOf(tokens[k].lexpos)
    /\ \A k \in 1..Len(reported) : reported[k].line_number = LineOf(reported[k].start)
    /\ LexerDone => lineno = LineOf(Len(lexdata))

\* the maximal runs of adjacent positions given to t_error, as <<start, length>>
UnrecognizedRuns ==
    {<<a, b - a + 1>> : a \in unrecognized, b \in unrecognized} \cap
    {r \in (0..Len(lexdata)) \X (1..Len(lexdata)) :
        /\ \A p \in r[1]..(r[1] + r[2] - 1) : p \in unrecognized
        /\ (r[1] - 1) \notin unrecognized
        /\ (r[1] + r[2]) \notin unrecognized}

\* the spans printed so far and the span that is pending
ReportedSpans == {<<reported[k].start, reported[k].length>> : k \in 1..Len(reported)}
PendingSpans == IF last_error = <<>> THEN {} ELSE {last_error}

RelationalOpcode(operator, any_real) ==
    CASE operator \in {"=", "<>"} -> "EQUAL"
      [] operator = "<" -> IF any_real THEN "FINF" ELSE "INF"
      [] operator = ">" -> IF any_real THEN "FSUP" ELSE "SUP"
      [] operator = "<=" -> IF any_real THEN "FINFEQ" ELSE "INFEQ"
      [] operator = ">=" -> IF any_real THEN "FSUPEQ" ELSE "SUPEQ"

ArithmeticOpcodes == {"ADD", "SUB", "MUL", "DIV", "MOD", "FADD", "FSUB", "FMUL", "FDIV"}

\* the instructions that end the code of expression e
EmittedFor(e) ==
    LET emitted == generate_expression_assembly(NewGenerator, e).program
        n == Len(emitted)
    IN IF e.operator = "<>"
       THEN <<emitted[n - 1].instruction, emitted[n].instruction>>
       ELSE <<emitted[n].instruction>>

\* C24: the code of every relational operation of an accepted assignment
\* ends with the opcode of its operator, in the F form exactly when an
\* operand is REAL (<> with EQUAL and then NOT), and never with an
\* arithmetic opcode
C24_RelationalOpcodes ==
    (compile_pc = "parsed" /\ p0[1] = "AssignStatement" /\ IsRelational(p0[3])) =>
        LET e == p0[3]
            any_real == \E k \in 1..2 : IsBuiltIn(e.args[k].type, BuiltInType_REAL)
            expected == RelationalOpcode(e.operator, any_real)
        IN /\ EmittedFor(e) = IF e.operator = "<>" THEN <<expected, "NOT">> ELSE <<expected>>
           /\ \A k \in 1..Len(EmittedFor(e)) : EmittedFor(e)[k] \notin ArithmeticOpcodes

(***************************************************************************)
(* C22: a CHAR assigned to a STRING.                                       *)
(***************************************************************************)
\* the assignment the productions inside it reduced gives a CHAR to a
\* left-hand side of type STRING, and the parser accepted it
CharToString ==
    /\ compile_pc = "parsed"
    /\ reduced[1] = "AssignStatement"
    /\ IsBuiltIn(reduced[2].type, BuiltInType_STRING)
    /\ IsBuiltIn(reduced[3].type, BuiltInType_CHAR)

\* C22: in every accepted assignment of a CHAR to a left-hand side of type
\* STRING, a plain variable or an element of an array, the type of the
\* right-hand side of the AssignStatement is STRING, and a character
\* constant on the right is emitted as PUSHS
C22_CharPromoted ==
    CharToString =>
        /\ IsBuiltIn(p0[3].type, BuiltInType_STRING)
        /\ p0[3].node = "Constant" =>
              generate_expression_assembly(NewGenerator, p0[3]).program[1].instruction = "PUSHS"

(***************************************************************************)
(* C23: the arguments of read and readln.                                  *)
(***************************************************************************)
IsReadCall(statement) ==
    statement[1] = "CallableCall" /\ statement[2].operator \in {"read", "readln"}

\* an argument read and readln cannot store into
NotOrdinalVariable(argument) ==
    argument.node # "VariableUsage" \/ argument.type.tag = "ArrayType"

\* C23: a call of read or readln with an argument that is not a variable
\* usage, or that is an array, sets has_errors, so that a call of read or
\* readln that main hands to the generator has only variable usages as
\* arguments and the generator raises nothing
C23_ReadArguments ==
    /\ (compile_pc \in {"reduced", "parsed", "exported", "raised"} /\ IsReadCall(reduced)
           /\ \E k \in 1..Len(reduced[2].args) : NotOrdinalVariable(reduced[2].args[k]))
          => has_errors
    /\ (compile_pc = "parsed" /\ IsReadCall(p0)) =>
           \A k \in 1..Len(p0[2].args) : p0[2].args[k].node = "VariableUsage"
    /\ IsReadCall(reduced) => compile_pc # "raised"

(***************************************************************************)
(* C28: the height of the operand stack over the generated code.           *)
(***************************************************************************)
\* the code of the statement the parser accepted, when the generator raises
\* nothing on it
StatementCode == generate_statement_assembly(NewGenerator, p0)

\* the expressions of the statement: the right-hand side of an assignment,
\* the arguments of a call, the condition of IF, WHILE and REPEAT
ExpressionsOf(statement) ==
    CASE statement[1] = "AssignStatement" -> {statement[3]}
      [] statement[1] = "CallableCall" ->
            {statement[2].args[k] : k \in 1..Len(statement[2].args)}
      [] statement[1] \in {"IfStatement", "WhileStatement"} -> {statement[2]}
      [] statement[1] = "RepeatStatement" -> {statement[3]}
      [] OTHER -> {}

\* C28: the code of every expression of an accepted statement leaves the
\* stack one value higher at its end, and the code of the statement leaves
\* it, at its fall-through exit, at the height it had on entry
C28_StackDiscipline ==
    (compile_pc = "parsed" /\ StatementCode.raised = "") =>
        /\ \A e \in ExpressionsOf(p0) :
              ExitHeights(generate_expression_assembly(NewGenerator, e).program) = {1}
        /\ ExitHeights(StatementCode.program) = {0}

(***************************************************************************)
(* C29: the assembly with and without -g.                                  *)
(***************************************************************************)
\* the labels and instructions of an assembly, in order
LabelsAndInstructions(list) == remove_ewvm_comments(list)

\* what main exports for the accepted program with the same -O and the
\* other -g
WithOtherG == main(Program(BlockVariables, p0), flag_O, ~flag_g)

=============================================================================
